---- MODULE Spec2Model ----
(***************************************************************************)
(* Rate-limit protection subsystem of AeroSpace-Alley-Comps and its call   *)
(* path.                                                                   *)
(*                                                                         *)
(* Each protection primitive is modelled as the record of its object's     *)
(* fields plus one pure operator per method, which maps the object before  *)
(* the call to the object after it (and the returned value).  The actions  *)
(* apply these operators; a component is exercised by its own              *)
(* specification, in which the other components stay as constructed.       *)
(*                                                                         *)
(*   SpecBreaker  CircuitBreaker       resources/rate_limit_protection.py  *)
(*   SpecLimiter  TokenBucketRateLimiter, called by two worker threads     *)
(*   SpecLimiterFair  the same, with time and the threads kept running     *)
(*   SpecBackoff  ExponentialBackoff.execute on an operation that may fail *)
(*   SpecTracker  PersistentAPIUsageTracker    resources/api_usage_tracker.py *)
(*   SpecLifecycle  the tracker over several runs and months               *)
(*   SpecRecovery  the tracker over runs with a damaged state file or a    *)
(*                 key added to the configuration                          *)
(*   SpecHealth   EnhancedHealthMonitor        resources/rate_limit_protection.py *)
(*   SpecFallback  should_trigger_fallback on every monitor state          *)
(*   SpecBatch    IntelligentBatchProcessor                                 *)
(*   SpecCoordinator  ConfigurationValidator and the coordinator's          *)
(*                 constructor                                             *)
(*   SpecAudit    ComprehensiveAuditLogger                                  *)
(*   SpecRequest  a run of AeroComps.py: startup, then two workers in      *)
(*                safe_api_request; or a connector's enrich                *)
(*   SpecEnrich   a connector's enrich with the retries of its backoff     *)
(*   SpecRun      the job loop of AeroComps.py, from startup to the export *)
(***************************************************************************)
EXTENDS Integers, Sequences, FiniteSets, TLC

VARIABLES
    cb,        \* the CircuitBreaker object (its self.* fields)
    now,       \* time.time() as read by the circuit breaker, in seconds
    cbOp,      \* the last circuit-breaker method called
    cbRet,     \* what that call returned
    cbPre,     \* the CircuitBreaker object as it was before that call
    cbPreNow,  \* the clock when the previous circuit-breaker method was called
    cbStreak,  \* record_failure() calls since the circuit was last CLOSED with
               \* no failure pending (construction, a success, a close)
    cbProbes,  \* record_success() calls since the circuit last became HALF_OPEN
    cbFailAt,  \* the clock at the latest record_failure() call, None before it
    cbAdmitted \* is_available() calls that returned True since the circuit last
               \* became HALF_OPEN, the one that made it so included; counted
               \* up to MaxHalfOpen + 1, and 0 outside HALF_OPEN

cbVars == <<cb, now, cbOp, cbRet, cbPre, cbPreNow, cbStreak, cbProbes, cbFailAt,
            cbAdmitted>>

VARIABLES
    tb,        \* the TokenBucketRateLimiter object; tokens are counted in grains
               \* (1/Grain of a token) and last_refill is held as `age`, the
               \* seconds since it, which is the only way the code reads it
    tbLock,    \* self.lock: "free" or the thread holding it
    tbPc,      \* where each thread is in acquire(): idle, lock, refill, deduct, sleep
    tbNeed,    \* the `tokens` argument of each thread's acquire() call
    tbDeficit, \* `deficit` of each sleeping thread, in grains
    tbSlept,   \* seconds each sleeping thread has slept so far
    tbFound,   \* the tokens each call found at its first check, None before it
    tbNapped,  \* whether each thread's call has slept
    tbNet,     \* tokens added by all refills so far minus tokens deducted by
               \* all acquire() calls so far, in grains
    tbCalls,   \* acquire() calls made so far
    tbLast,    \* the acquire() call that returned last: its argument, the
               \* tokens it found at its first check, whether it slept
    tbRecent   \* for k in 0..MaxWindow, the acquire() calls granted k seconds
               \* ago: how many, and the tokens they took.  A grant is dated
               \* by the clock reading of the _refill() whose tokens passed
               \* the test `self.tokens >= tokens`

tbThreadVars == <<tbPc, tbNeed, tbDeficit, tbSlept, tbFound, tbNapped>>

tbVars == <<tb, tbLock, tbThreadVars, tbNet, tbCalls, tbLast, tbRecent>>

VARIABLES
    bo,        \* the ExponentialBackoff object; delays are counted in 1/JitterTenth
               \* of a second
    boPc,      \* where execute() is: idle, loop, sleep, returned, raised
    boAttempt, \* `attempt`, the loop variable
    boLastExc, \* `last_exception`
    boResult,  \* what execute() returned or raised, None while it runs
    boCalls,   \* the outcome of each invocation of func so far, in order
    boSleeps   \* each time.sleep() so far: `delay` before the jitter and as slept

boVars == <<bo, boPc, boAttempt, boLastExc, boResult, boCalls, boSleeps>>

VARIABLES
    trConfig,  \* self.config['api_keys']: the configured keys, in file order
    trState,   \* self.state: api_keys (label -> usage record) and metadata
    trCurrent, \* self.current_key: None or a label
    trFile,    \* the state file: None while it does not exist, else its content
    trToday,   \* datetime.now(): the month and the day of the month
    trAlive,   \* FALSE once sys.exit() or an uncaught error has ended the process
    trOp,      \* the last tracker method called
    trRet,     \* what get_available_key() returned last
    trWaited,  \* whether that call went through the 60-second warning
    trIncs,    \* increment_usage() calls made so far
    trRaised,  \* the exception that ended the process, None while it runs
    trArg,     \* the arguments of the last call when it was increment_usage()
    trLoaded   \* the dates at which this tracker was constructed (this) and at
               \* which the tracker that last wrote the state file was (saved)

trVars == <<trConfig, trState, trCurrent, trFile, trToday, trAlive,
            trOp, trRet, trWaited, trIncs, trRaised, trArg, trLoaded>>

VARIABLES
    hm,        \* the EnhancedHealthMonitor object: metrics, response_times,
               \* consecutive_failures
    hmOp,      \* the last monitor method called
    hmArg,     \* the status_code and jobs_found of the last record_call()
    hmRet,     \* what should_trigger_fallback() returned last
    hmNon2xx,  \* calls with a status outside 200..299 recorded since the last
               \* call with a status inside
    hmRecorded \* record_call() calls made so far

hmVars == <<hm, hmOp, hmArg, hmRet, hmNon2xx, hmRecorded>>

VARIABLES
    bp,        \* the IntelligentBatchProcessor object
    bpPc,      \* where process_in_batches() is: idle, item, pause, returned, raised
    bpItems,   \* `items`, the list being processed
    bpI,       \* `i`, the offset of the current batch in items
    bpBatch,   \* `batch_results`
    bpResults, \* `all_results`; what the call returned once it has returned
    bpPause,   \* what calculate_pause() returned last, with its base and jitter,
               \* in thousandths of a second; None before the first call
    bpTrace,   \* what the current process_in_batches() call has done so far:
               \* the items given to process_func and the pauses, in order
    bpBefore,  \* batches_processed when the current call started
    bpOp       \* the method of the processor called last

bpVars == <<bp, bpPc, bpItems, bpI, bpBatch, bpResults, bpPause, bpTrace, bpBefore,
            bpOp>>

VARIABLES
    coConfig,  \* the `config` dictionary given to RateLimitProtectionCoordinator
    coPc,      \* where the constructor is: start, building, done, raised
    coChecked, \* what ConfigurationValidator.validate found: errors and warnings
    coBuilt,   \* the protection components constructed so far, in order
    coRaised   \* the error the constructor raised, None if none

coVars == <<coConfig, coPc, coChecked, coBuilt, coRaised>>

VARIABLES
    alFiles,    \* the log files: the records each holds, one per line, in order
    alHandlers, \* the handlers of logging.getLogger('SerpAPI_Audit'): the file
                \* each writes to
    alLoggers,  \* the ComprehensiveAuditLogger objects constructed: their log_file
    alNow,      \* datetime.utcnow()
    alOp,       \* the last method called, and on which object
    alCalls     \* log_event() calls made so far, the helpers' calls included

alVars == <<alFiles, alHandlers, alLoggers, alNow, alOp, alCalls>>

VARIABLES
    rqPath,     \* what each worker runs: safe_api_request, enrich, or nothing
    rqPc,       \* where each worker is in its call
    rqApiLock,  \* api_lock: "free" or the worker holding it
    rqCbLock,   \* circuit_breaker.lock: "free" or the worker holding it
    rqApiCalls, \* `api_calls`
    rqMax,      \* MAX_API_CALLS
    rqLimitReached, \* `api_limit_reached`
    rqOutcome,  \* what the external request of each worker's call did: a
                \* response with its status code, or an error; None before it
    rqRet,      \* how each worker's last call ended, None while it runs
    rqTrace,    \* what each worker's current call has done so far, in order
    rqStarted,  \* calls started so far
    rqIssued,   \* external requests issued so far
    rqOrder     \* the pairs (held, taken) of locks: `taken` was taken by a
                \* worker that held `held`

rqVars == <<rqPath, rqPc, rqApiLock, rqCbLock, rqApiCalls, rqMax, rqLimitReached,
            rqOutcome, rqRet, rqTrace, rqStarted, rqIssued, rqOrder>>

VARIABLES
    jlPc,       \* where the job loop of AeroComps.py is: at the top of the main
                \* loop, in fetch_jobs_for_company (its entry, the top of its
                \* page loop, the top of its retry loop, the call of
                \* safe_api_request), after it, at the final export, done
    jlCompany,  \* companies the main loop has taken so far
    jlPage,     \* pages of the current company taken so far
    jlAttempt,  \* `attempt`, the variable of the retry loop
    jlHandled,  \* safe_api_request calls whose result the loop has taken
    jlLocal,    \* len(local_results)
    jlResults,  \* len(results)
    jlReported  \* the number of records the final export reported, None before it

jlVars == <<jlPc, jlCompany, jlPage, jlAttempt, jlHandled, jlLocal, jlResults,
            jlReported>>

vars == <<cbVars, tbVars, boVars, trVars, hmVars, bpVars, coVars, alVars, rqVars,
          jlVars>>

\* What a step of one component leaves alone: the other components.
notBreaker == <<tbVars, boVars, trVars, hmVars, bpVars, coVars, alVars, rqVars,
    jlVars>>
notLimiter == <<cbVars, boVars, trVars, hmVars, bpVars, coVars, alVars, rqVars,
    jlVars>>
notBackoff == <<cbVars, tbVars, trVars, hmVars, bpVars, coVars, alVars, rqVars,
    jlVars>>
notTracker == <<cbVars, tbVars, boVars, hmVars, bpVars, coVars, alVars, rqVars,
    jlVars>>
notHealth == <<cbVars, tbVars, boVars, trVars, bpVars, coVars, alVars, rqVars,
    jlVars>>
notCoordinator == <<cbVars, tbVars, boVars, trVars, hmVars, bpVars, alVars, rqVars,
    jlVars>>
notAudit == <<cbVars, tbVars, boVars, trVars, hmVars, bpVars, coVars, rqVars,
    jlVars>>
notRequest == <<boVars, hmVars, bpVars, coVars, alVars, jlVars>>
notBatch == <<cbVars, tbVars, boVars, trVars, hmVars, coVars, alVars, rqVars,
    jlVars>>

----------------------------------------------------------------------------
(* Bounds of the model *)

MaxThreshold == 3     \* failure_threshold ranges over 1..MaxThreshold
MaxTimeout == 2       \* timeout ranges over 1..MaxTimeout seconds
MaxHalfOpen == 2      \* half_open_max_calls ranges over 1..MaxHalfOpen
MaxTime == 6          \* the clock stops advancing at MaxTime
MaxFailures == 4      \* record_failure() is not called once failure_count reaches it
MaxCapacity == 2      \* the bucket's capacity ranges over 1..MaxCapacity tokens
MaxRate == 2          \* refill_rate ranges over 1..MaxRate grains per second
Grain == 2            \* grains per token: the resolution of the float `tokens`
MaxWindow == 2        \* grants are remembered for MaxWindow seconds
MaxCalls == 3         \* acquire() calls made in one run
MaxAttempts == 3      \* max_attempts ranges over 0..MaxAttempts
MaxBaseDelay == 2     \* base_delay ranges over 1..MaxBaseDelay seconds
MaxMaxDelay == 3      \* max_delay ranges over 1..MaxMaxDelay seconds
MaxLimit == 2         \* monthly_limit of a key ranges over 1..MaxLimit
MaxIncrement == 2     \* the `calls` argument of increment_usage ranges over 1..MaxIncrement
MaxIncs == 3          \* increment_usage() calls made in one run
MaxDay == 2           \* the run lasts from day 1 to day MaxDay of one month
MaxRecorded == 5      \* record_call() calls made in one run
MaxProcessed == 11    \* calls already recorded when should_trigger_fallback() is examined
MaxRateLimited == 3   \* of which calls answered 403 or 429
MaxJobs == 1          \* jobs_found ranges over 0..MaxJobs
DaysInMonth == 2      \* days of a month when runs span months; billing days are 1..DaysInMonth
MaxMonth == 2         \* the months are 1..MaxMonth
MaxItems == 5         \* process_in_batches() is given 0..MaxItems items
MaxBatchSize == 3     \* batch_size ranges over 1..MaxBatchSize
MaxMinPause == 2      \* min_pause ranges over 1..MaxMinPause seconds
MaxMaxPause == 3      \* max_pause ranges over min_pause..MaxMaxPause seconds
MaxTenths == 32       \* min_interval_seconds ranges over 0..MaxTenths tenths of a
                      \* second and the whole minutes up to MaxThreads minutes
MaxThreads == 4       \* max_threads ranges over 1..MaxThreads
MaxEvents == 3        \* log_event() calls made in one run
MaxOldRecords == 1    \* records a log file holds before the run
MaxAuditTime == 1     \* datetime.utcnow() ranges over 0..MaxAuditTime
MaxCompanies == 3     \* companies in the run's list
MaxPages == 2         \* pages fetch_jobs_for_company asks for (MAX_JOBS / 10)
MaxRequests == 3      \* safe_api_request() or enrich() calls started in one run
MaxRunTime == 4       \* the run's clock stops advancing at MaxRunTime
MaxApiCalls == 2      \* MAX_API_CALLS ranges over 1..MaxApiCalls
MaxRunThreshold == 2  \* failure_threshold of the run's circuit breaker ranges
                      \* over 1..MaxRunThreshold
MaxBatches == 6       \* process_in_batches() is not called once batches_processed
                      \* would pass MaxBatches

----------------------------------------------------------------------------
(* Python values *)

\* None is the empty tuple and a number x is <<x>>, so that an optional
\* field can be compared without mixing types.
None == <<>>

Some(x) == <<x>>

\* Python truthiness of an optional number: None and 0 are falsy.
Truthy(v) == v # None /\ v[1] # 0

----------------------------------------------------------------------------
(* LAYER 3: CircuitBreaker *)

\* CircuitBreaker.__init__
CircuitBreaker(ft, to, homc) ==
    [ failure_threshold   |-> ft,
      timeout             |-> to,
      half_open_max_calls |-> homc,
      failure_count       |-> 0,
      success_count       |-> 0,
      last_failure_time   |-> None,
      state               |-> "CLOSED" ]

\* Mutant of TimeoutExpired: the clock itself is compared with the timeout.
TimeoutExpired_NoSubtraction(self, t) ==
    t > self.timeout

\* `time.time() - self.last_failure_time > self.timeout`
TimeoutExpired(self, t) ==
    t - self.last_failure_time[1] > self.timeout

\* Mutant of is_available: entering HALF_OPEN keeps the old success_count.
is_available_KeepCount(self, t) ==
    IF self.state = "OPEN"
    THEN IF Truthy(self.last_failure_time) /\ TimeoutExpired(self, t)
         THEN [ self |-> [self EXCEPT !.state = "HALF_OPEN"], ret |-> TRUE ]
         ELSE [ self |-> self, ret |-> FALSE ]
    ELSE [ self |-> self, ret |-> TRUE ]

\* CircuitBreaker.is_available at clock t: the object afterwards and the result.
is_available(self, t) ==
    IF self.state = "OPEN"
    THEN IF Truthy(self.last_failure_time) /\ TimeoutExpired(self, t)
         THEN [ self |-> [self EXCEPT !.state = "HALF_OPEN", !.success_count = 0],
                ret  |-> TRUE ]
         ELSE [ self |-> self, ret |-> FALSE ]
    ELSE [ self |-> self, ret |-> TRUE ]

\* Mutant of record_success: the probation closes one success late (> for >=).
record_success_OneLate(self) ==
    IF self.state = "HALF_OPEN"
    THEN LET n == self.success_count + 1
         IN  IF n > self.half_open_max_calls
             THEN [self EXCEPT !.success_count = n,
                               !.state = "CLOSED",
                               !.failure_count = 0]
             ELSE [self EXCEPT !.success_count = n]
    ELSE [self EXCEPT !.failure_count = 0]

\* CircuitBreaker.record_success
record_success(self) ==
    IF self.state = "HALF_OPEN"
    THEN LET n == self.success_count + 1
         IN  IF n >= self.half_open_max_calls
             THEN [self EXCEPT !.success_count = n,
                               !.state = "CLOSED",
                               !.failure_count = 0]
             ELSE [self EXCEPT !.success_count = n]
    ELSE [self EXCEPT !.failure_count = 0]

\* Mutant of record_failure: the circuit opens one failure late (> for >=).
record_failure_OneLate(self, t) ==
    LET n == self.failure_count + 1
        s == [self EXCEPT !.failure_count = n, !.last_failure_time = Some(t)]
    IN  IF self.state = "HALF_OPEN"
        THEN [s EXCEPT !.state = "OPEN"]
        ELSE IF n > self.failure_threshold
             THEN [s EXCEPT !.state = "OPEN"]
             ELSE s

\* CircuitBreaker.record_failure at clock t
record_failure(self, t) ==
    LET n == self.failure_count + 1
        s == [self EXCEPT !.failure_count = n, !.last_failure_time = Some(t)]
    IN  IF self.state = "HALF_OPEN"
        THEN [s EXCEPT !.state = "OPEN"]
        ELSE IF n >= self.failure_threshold
             THEN [s EXCEPT !.state = "OPEN"]
             ELSE s

\* CircuitBreaker.get_state: the returned dict; the object is not written.
get_state(self) ==
    [ state         |-> self.state,
      failure_count |-> self.failure_count,
      success_count |-> self.success_count,
      available     |-> self.state # "OPEN" ]

----------------------------------------------------------------------------
(* Circuit-breaker actions: one per method, plus the passing of time *)

BreakerInit ==
    /\ \E ft \in 1..MaxThreshold, to \in 1..MaxTimeout, homc \in 1..MaxHalfOpen :
           cb = CircuitBreaker(ft, to, homc)
    /\ now = 1
    /\ cbOp = "__init__"
    /\ cbRet = None
    /\ cbPre = cb
    /\ cbPreNow = now
    /\ cbStreak = 0
    /\ cbProbes = 0
    /\ cbFailAt = None
    /\ cbAdmitted = 0

\* What every circuit-breaker call records about itself.
BreakerCalled(op, ret) ==
    /\ cbOp' = op
    /\ cbRet' = ret
    /\ cbPre' = cb
    /\ cbPreNow' = now
    /\ now' = now
    /\ UNCHANGED notBreaker

IsAvailable ==
    LET r == is_available(cb, now)
    IN  /\ cb' = r.self
        /\ BreakerCalled("is_available", Some(r.ret))
        /\ cbStreak' = cbStreak
        /\ cbProbes' = IF cb.state # "HALF_OPEN" /\ r.self.state = "HALF_OPEN"
                       THEN 0 ELSE cbProbes
        /\ cbFailAt' = cbFailAt
        /\ cbAdmitted' = IF r.self.state # "HALF_OPEN" THEN 0
                         ELSE IF cb.state # "HALF_OPEN" THEN 1
                         ELSE IF cbAdmitted > MaxHalfOpen THEN cbAdmitted
                         ELSE cbAdmitted + 1

RecordSuccess ==
    /\ cb' = record_success(cb)
    /\ BreakerCalled("record_success", None)
    /\ cbStreak' = 0
    /\ cbProbes' = IF cb.state = "HALF_OPEN" THEN cbProbes + 1 ELSE cbProbes
    /\ cbFailAt' = cbFailAt
    /\ cbAdmitted' = IF cb'.state = "HALF_OPEN" THEN cbAdmitted ELSE 0

RecordFailure ==
    /\ cb.failure_count < MaxFailures
    /\ cb' = record_failure(cb, now)
    /\ BreakerCalled("record_failure", None)
    /\ cbStreak' = IF cb.state = "CLOSED" THEN cbStreak + 1 ELSE cbStreak
    /\ cbProbes' = cbProbes
    /\ cbFailAt' = Some(now)
    /\ cbAdmitted' = IF cb'.state = "HALF_OPEN" THEN cbAdmitted ELSE 0

GetState ==
    /\ cb' = cb
    /\ BreakerCalled("get_state", Some(get_state(cb)))
    /\ UNCHANGED <<cbStreak, cbProbes, cbFailAt, cbAdmitted>>

\* One second passes between two calls.
BreakerTick ==
    /\ now < MaxTime
    /\ now' = now + 1
    /\ UNCHANGED <<cb, cbOp, cbRet, cbPre, cbPreNow, cbStreak, cbProbes, cbFailAt,
                 cbAdmitted>>
    /\ UNCHANGED notBreaker

BreakerNext ==
    \/ IsAvailable
    \/ RecordSuccess
    \/ RecordFailure
    \/ GetState
    \/ BreakerTick

\* The circuit breaker as the coordinator builds it, not called.
BreakerParked ==
    /\ cb = CircuitBreaker(3, 2, 2)
    /\ now = 1
    /\ cbOp = "__init__"
    /\ cbRet = None
    /\ cbPre = cb
    /\ cbPreNow = now
    /\ cbStreak = 0
    /\ cbProbes = 0
    /\ cbFailAt = None
    /\ cbAdmitted = 0

----------------------------------------------------------------------------
(* LAYER 2: TokenBucketRateLimiter *)

Threads == {"w1", "w2"}

Min(a, b) == IF a <= b THEN a ELSE b

\* TokenBucketRateLimiter.__init__: a full bucket, refilled just now.
TokenBucketRateLimiter(capacity, refill_rate) ==
    [ capacity    |-> capacity,
      tokens      |-> capacity * Grain,
      refill_rate |-> refill_rate,
      age         |-> 0 ]

\* Mutant of _refill: last_refill is not moved, so the same elapsed time is
\* paid out again by the next refill.
refill_KeepsLastRefill(self) ==
    [self EXCEPT !.tokens = IF self.capacity * Grain
                                  <= self.tokens + self.age * self.refill_rate
                            THEN self.capacity * Grain
                            ELSE self.tokens + self.age * self.refill_rate]

\* Mutant of _refill: the sum is not capped at the capacity.
refill_Uncapped(self) ==
    [self EXCEPT !.tokens = self.tokens + self.age * self.refill_rate,
                 !.age = 0]

\* TokenBucketRateLimiter._refill: elapsed = now - last_refill,
\* tokens = min(capacity, tokens + elapsed * refill_rate), last_refill = now.
refill(self) ==
    [self EXCEPT !.tokens = Min(self.capacity * Grain,
                                self.tokens + self.age * self.refill_rate),
                 !.age = 0]

\* Mutant of Enough: a bucket holding exactly the request is found short.
Enough_Strict(self, n) == self.tokens > n * Grain

\* `self.tokens >= tokens`
Enough(self, n) == self.tokens >= n * Grain

\* `self.tokens -= tokens`
deduct(self, n) == [self EXCEPT !.tokens = self.tokens - n * Grain]

\* `deficit = tokens - self.tokens`
Deficit(self, n) == n * Grain - self.tokens

\* time.sleep(min(wait_time, 1.0)) with wait_time = deficit / refill_rate has
\* returned once `slept` seconds have passed: slept >= wait_time or slept >= 1.
SleepOver(self, deficit, slept) ==
    slept * self.refill_rate >= deficit \/ slept >= 1

\* TokenBucketRateLimiter.get_status: the object afterwards and the dict.
get_status(self) ==
    LET s == refill(self)
    IN  [ self |-> s,
          ret  |-> [ tokens_available    |-> s.tokens,
                     capacity            |-> s.capacity,
                     used                |-> s.capacity * Grain - s.tokens,
                     refill_rate_per_sec |-> s.refill_rate ] ]

\* Mutant of SleepHolds: the lock is given up for the time of the sleep.
SleepHolds_Released(t) == "free"

\* time.sleep() is called inside `with self.lock:`: who holds the lock while
\* thread t sleeps.
SleepHolds(t) == t

\* Mutant of LockFree: acquire() and get_status() do not take the lock.
LockFree_NoLock == TRUE

\* `with self.lock:` can be entered.
LockFree == tbLock = "free"

----------------------------------------------------------------------------
(* Limiter actions: the steps of acquire() by each thread, get_status(), time *)

LimiterIdle ==
    /\ tbLock = "free"
    /\ tbPc = [t \in Threads |-> "idle"]
    /\ tbNeed = [t \in Threads |-> 0]
    /\ tbDeficit = [t \in Threads |-> 0]
    /\ tbSlept = [t \in Threads |-> 0]
    /\ tbFound = [t \in Threads |-> None]
    /\ tbNapped = [t \in Threads |-> FALSE]
    /\ tbNet = 0
    /\ tbCalls = 0
    /\ tbLast = None
    /\ tbRecent = [k \in 0..MaxWindow |-> [grants |-> 0, tokens |-> 0]]

LimiterInit ==
    /\ \E capacity \in 1..MaxCapacity, refill_rate \in 1..MaxRate :
           tb = TokenBucketRateLimiter(capacity, refill_rate)
    /\ LimiterIdle

\* The limiter as constructed, not called.
LimiterParked ==
    /\ tb = TokenBucketRateLimiter(1, 1)
    /\ LimiterIdle

\* Thread t calls acquire(n) and waits for the lock.
AcquireCall(t, n) ==
    /\ tbPc[t] = "idle"
    /\ tbCalls < MaxCalls
    /\ tbCalls' = tbCalls + 1
    /\ tbPc' = [tbPc EXCEPT ![t] = "lock"]
    /\ tbNeed' = [tbNeed EXCEPT ![t] = n]
    /\ UNCHANGED notLimiter
    /\ UNCHANGED <<tb, tbLock, tbDeficit, tbSlept, tbFound, tbNapped, tbNet, tbLast,
                   tbRecent>>

\* `with self.lock:` is entered.
AcquireLock(t) ==
    /\ tbPc[t] = "lock"
    /\ LockFree
    /\ tbLock' = t
    /\ tbPc' = [tbPc EXCEPT ![t] = "refill"]
    /\ UNCHANGED notLimiter
    /\ UNCHANGED <<tb, tbNeed, tbDeficit, tbSlept, tbFound, tbNapped,
                   tbNet, tbCalls, tbLast, tbRecent>>

\* The top of the loop: self._refill() and the test `self.tokens >= tokens`;
\* when it fails, the deficit is computed and the sleep starts.
AcquireRefill(t) ==
    /\ tbPc[t] = "refill"
    /\ tb' = refill(tb)
    /\ tbNet' = tbNet + (tb'.tokens - tb.tokens)
    /\ tbFound' = [tbFound EXCEPT ![t] = IF @ = None THEN Some(tb'.tokens) ELSE @]
    /\ IF Enough(tb', tbNeed[t])
       THEN /\ tbPc' = [tbPc EXCEPT ![t] = "deduct"]
            /\ tbRecent' = [tbRecent EXCEPT ![0] = [grants |-> @.grants + 1,
                                                    tokens |-> @.tokens + tbNeed[t]]]
            /\ UNCHANGED <<tbLock, tbDeficit, tbSlept, tbNapped>>
       ELSE /\ tbPc' = [tbPc EXCEPT ![t] = "sleep"]
            /\ tbRecent' = tbRecent
            /\ tbLock' = IF tbLock = t THEN SleepHolds(t) ELSE tbLock
            /\ tbDeficit' = [tbDeficit EXCEPT ![t] = Deficit(tb', tbNeed[t])]
            /\ tbSlept' = [tbSlept EXCEPT ![t] = 0]
            /\ tbNapped' = [tbNapped EXCEPT ![t] = TRUE]
    /\ UNCHANGED notLimiter
    /\ UNCHANGED <<tbNeed, tbCalls, tbLast>>

\* `self.tokens -= tokens` and the return, which leaves the `with` block.
AcquireDeduct(t) ==
    /\ tbPc[t] = "deduct"
    /\ tb' = deduct(tb, tbNeed[t])
    /\ tbNet' = tbNet - tbNeed[t] * Grain
    /\ tbLock' = IF tbLock = t THEN "free" ELSE tbLock
    /\ tbPc' = [tbPc EXCEPT ![t] = "idle"]
    /\ tbLast' = Some([need |-> tbNeed[t], found |-> tbFound[t][1],
                       napped |-> tbNapped[t]])
    /\ tbNeed' = [tbNeed EXCEPT ![t] = 0]
    /\ tbFound' = [tbFound EXCEPT ![t] = None]
    /\ tbNapped' = [tbNapped EXCEPT ![t] = FALSE]
    /\ UNCHANGED notLimiter
    /\ UNCHANGED <<tbDeficit, tbSlept, tbCalls, tbRecent>>

\* time.sleep() returns and the loop starts over.
AcquireWake(t) ==
    /\ tbPc[t] = "sleep"
    /\ SleepOver(tb, tbDeficit[t], tbSlept[t])
    /\ tbPc' = [tbPc EXCEPT ![t] = "refill"]
    /\ tbDeficit' = [tbDeficit EXCEPT ![t] = 0]
    /\ tbSlept' = [tbSlept EXCEPT ![t] = 0]
    /\ UNCHANGED notLimiter
    /\ UNCHANGED <<tb, tbLock, tbNeed, tbFound, tbNapped, tbNet, tbCalls, tbLast,
                   tbRecent>>

\* get_status() by an idle thread: lock, _refill(), the dict, unlock.
GetStatus(t) ==
    /\ tbPc[t] = "idle"
    /\ LockFree
    /\ tb' = get_status(tb).self
    /\ tbNet' = tbNet + (tb'.tokens - tb.tokens)
    /\ UNCHANGED notLimiter
    /\ UNCHANGED <<tbLock, tbThreadVars, tbCalls, tbLast, tbRecent>>

\* One second passes.  The age of last_refill is not counted beyond the point
\* where a refill fills the bucket whatever it holds, nor a sleep beyond the
\* point where it is over.
LimiterTick ==
    /\ tb' = [tb EXCEPT !.age = IF @ * tb.refill_rate >= tb.capacity * Grain
                                 THEN @ ELSE @ + 1]
    /\ tbSlept' = [t \in Threads |->
                     IF tbPc[t] = "sleep" /\ ~SleepOver(tb, tbDeficit[t], tbSlept[t])
                     THEN tbSlept[t] + 1 ELSE tbSlept[t]]
    /\ tbRecent' = [k \in 0..MaxWindow |->
                        IF k = 0 THEN [grants |-> 0, tokens |-> 0]
                        ELSE tbRecent[k - 1]]
    /\ UNCHANGED notLimiter
    /\ UNCHANGED <<tbLock, tbPc, tbNeed, tbDeficit, tbFound, tbNapped,
                   tbNet, tbCalls, tbLast>>

LimiterThread(t) ==
    \/ \E n \in 1..(tb.capacity + 1) : AcquireCall(t, n)
    \/ AcquireLock(t)
    \/ AcquireRefill(t)
    \/ AcquireDeduct(t)
    \/ AcquireWake(t)
    \/ GetStatus(t)

LimiterNext ==
    \/ \E t \in Threads : LimiterThread(t)
    \/ LimiterTick

----------------------------------------------------------------------------
(* LAYER 4: ExponentialBackoff *)

\* `delay * 0.1`: a tenth of the delay bounds the jitter.  Delays are held in
\* 1/JitterTenth of a second, so that the bound is a whole number.
JitterTenth == 10

\* What func can do when invoked: return a value or raise an error.
Outcomes ==
    { [kind |-> "return", value |-> v] : v \in {"r1", "r2"} }
        \cup { [kind |-> "raise", value |-> e] : e \in {"e1", "e2"} }

\* ExponentialBackoff.__init__
ExponentialBackoff(base_delay, max_delay, max_attempts, jitter) ==
    [ base_delay   |-> base_delay,
      max_delay    |-> max_delay,
      max_attempts |-> max_attempts,
      jitter       |-> jitter ]

\* Mutant of IsLastAttempt: the loop bound itself is taken for the last index.
IsLastAttempt_OffByOne(self, attempt) == attempt = self.max_attempts

\* `attempt == self.max_attempts - 1`
IsLastAttempt(self, attempt) == attempt = self.max_attempts - 1

\* Mutant of BackoffDelay: the delay is not capped at max_delay.
BackoffDelay_Uncapped(self, attempt) == self.base_delay * (2 ^ attempt)

\* `delay = min(self.base_delay * (2 ** attempt), self.max_delay)`
BackoffDelay(self, attempt) ==
    Min(self.base_delay * (2 ^ attempt), self.max_delay)

\* `random.uniform(0, delay * 0.1)`: the amounts it can return.
JitterAmounts(delay) == 0..(delay \div JitterTenth)

----------------------------------------------------------------------------
(* Backoff actions: the steps of execute() *)

BackoffIdle ==
    /\ boPc = "idle"
    /\ boAttempt = 0
    /\ boLastExc = None
    /\ boResult = None
    /\ boCalls = <<>>
    /\ boSleeps = <<>>

BackoffInit ==
    /\ \E b \in 1..MaxBaseDelay, m \in 1..MaxMaxDelay,
          a \in 0..MaxAttempts, j \in BOOLEAN :
           bo = ExponentialBackoff(b * JitterTenth, m * JitterTenth, a, j)
    /\ BackoffIdle

\* The backoff as constructed, execute() not called.
BackoffParked ==
    /\ bo = ExponentialBackoff(JitterTenth, JitterTenth, 1, TRUE)
    /\ BackoffIdle

\* execute(func) is called: last_exception = None and the loop starts.
Execute ==
    /\ boPc = "idle"
    /\ boPc' = "loop"
    /\ boAttempt' = 0
    /\ boLastExc' = None
    /\ UNCHANGED <<bo, boResult, boCalls, boSleeps>>
    /\ UNCHANGED notBackoff

\* One pass of the loop body: func is invoked and either returns, which ends
\* execute(), or raises; the error of the last attempt is raised again, an
\* earlier one starts the sleep.
Attempt(outcome) ==
    /\ boPc = "loop"
    /\ boAttempt < bo.max_attempts
    /\ boCalls' = Append(boCalls, outcome)
    /\ IF outcome.kind = "return"
       THEN /\ boPc' = "returned"
            /\ boResult' = Some(outcome)
            /\ UNCHANGED <<boLastExc, boSleeps>>
       ELSE /\ boLastExc' = Some(outcome.value)
            /\ IF IsLastAttempt(bo, boAttempt)
               THEN /\ boPc' = "raised"
                    /\ boResult' = Some(outcome)
                    /\ UNCHANGED boSleeps
               ELSE /\ boPc' = "sleep"
                    /\ boResult' = boResult
                    /\ \E amount \in IF bo.jitter
                                     THEN JitterAmounts(BackoffDelay(bo, boAttempt))
                                     ELSE {0} :
                           boSleeps' = Append(boSleeps,
                               [ delay |-> BackoffDelay(bo, boAttempt),
                                 slept |-> BackoffDelay(bo, boAttempt) + amount ])
    /\ UNCHANGED <<bo, boAttempt>>
    /\ UNCHANGED notBackoff

\* time.sleep(delay) returns and the loop goes on with the next attempt.
SleepDone ==
    /\ boPc = "sleep"
    /\ boPc' = "loop"
    /\ boAttempt' = boAttempt + 1
    /\ UNCHANGED <<bo, boLastExc, boResult, boCalls, boSleeps>>
    /\ UNCHANGED notBackoff

\* The loop ends without a return or a raise: last_exception is raised if
\* there is one, the "All retry attempts exhausted" exception otherwise.
LoopExhausted ==
    /\ boPc = "loop"
    /\ boAttempt >= bo.max_attempts
    /\ boPc' = "raised"
    /\ boResult' = IF boLastExc # None
                   THEN Some([kind |-> "raise", value |-> boLastExc[1]])
                   ELSE Some([kind |-> "raise", value |-> "exhausted"])
    /\ UNCHANGED <<bo, boAttempt, boLastExc, boCalls, boSleeps>>
    /\ UNCHANGED notBackoff

BackoffNext ==
    \/ Execute
    \/ \E outcome \in Outcomes : Attempt(outcome)
    \/ SleepDone
    \/ LoopExhausted

----------------------------------------------------------------------------
(* PersistentAPIUsageTracker *)

Labels == <<"A", "B">>

\* One entry of config['api_keys'].
KeyInfo(label, priority, monthly_limit) ==
    [ label             |-> label,
      priority          |-> priority,
      monthly_limit     |-> monthly_limit,
      billing_cycle_day |-> 1 ]

\* today.strftime("%Y-%m") and today.strftime("%Y-%m-%d")
MonthOf(today) == <<today.month>>
DateOf(today) == <<today.month, today.day>>

\* The record initialize_state and increment_usage create for a key.
FreshRecord(key_info, today) ==
    [ total_calls_used  |-> 0,
      monthly_limit     |-> key_info.monthly_limit,
      billing_cycle_day |-> key_info.billing_cycle_day,
      last_reset        |-> <<today.month, 1>>,
      current_month     |-> MonthOf(today),
      daily_usage       |-> << >> ]

\* PersistentAPIUsageTracker.initialize_state
initialize_state(config, today) ==
    [ api_keys |-> [ l \in { config[i].label : i \in 1..Len(config) } |->
                       FreshRecord(
                           config[CHOOSE i \in 1..Len(config) :
                                      /\ config[i].label = l
                                      /\ \A j \in (i + 1)..Len(config) :
                                             config[j].label # l],
                           today) ],
      metadata |-> [ tracking_start |-> DateOf(today),
                     last_updated   |-> DateOf(today),
                     current_key    |-> None ] ]

\* A configured key whose billing cycle starts on day `day` of the month.
KeyInfoOn(label, priority, monthly_limit, day) ==
    [KeyInfo(label, priority, monthly_limit) EXCEPT !.billing_cycle_day = day]

\* The ways the content of a state file can be damaged: text that is not
\* JSON (cut short, empty), bytes that are not text in the file's encoding,
\* and JSON text that is not a state object (such as {} or null).
Damages == {"invalid_json", "not_text", "not_a_state"}

Corrupted(damage) == [corrupted |-> damage]

\* Whether the content is a state object as save_state writes it.
Decodes(content) == "api_keys" \in DOMAIN content

\* What load_state lets through to the caller of the constructor: the read of
\* json.load fails on undecodable bytes with UnicodeDecodeError,
\* check_monthly_resets fails on state['api_keys'] of a JSON value that has
\* none; only json.JSONDecodeError is caught.
LoadRaises(file) ==
    IF file = None \/ Decodes(file[1])
    THEN None
    ELSE IF file[1].corrupted = "invalid_json"
         THEN None
         ELSE IF file[1].corrupted = "not_text"
              THEN Some("UnicodeDecodeError")
              ELSE Some("KeyError")

\* Mutant of ResetDue: the stored month is not looked at.
ResetDue_AnyMonth(key_state, today) == today.day >= key_state.billing_cycle_day

\* `current_month != last_reset_month and today.day >= billing_day`
ResetDue(key_state, today) ==
    /\ MonthOf(today) # key_state.current_month
    /\ today.day >= key_state.billing_cycle_day

\* Mutant of check_monthly_resets: the reset leaves daily_usage as it was.
check_monthly_resets_KeepDaily(state, today) ==
    [state EXCEPT !.api_keys =
        [ label \in DOMAIN state.api_keys |->
            LET key_state == state.api_keys[label]
            IN  IF ResetDue(key_state, today)
                THEN [key_state EXCEPT !.total_calls_used = 0,
                                       !.current_month = MonthOf(today),
                                       !.last_reset = DateOf(today)]
                ELSE key_state ]]

\* PersistentAPIUsageTracker.check_monthly_resets
check_monthly_resets(state, today) ==
    [state EXCEPT !.api_keys =
        [ label \in DOMAIN state.api_keys |->
            LET key_state == state.api_keys[label]
            IN  IF ResetDue(key_state, today)
                THEN [key_state EXCEPT !.total_calls_used = 0,
                                       !.current_month = MonthOf(today),
                                       !.last_reset = DateOf(today),
                                       !.daily_usage = << >>]
                ELSE key_state ]]

\* PersistentAPIUsageTracker.load_state, when it returns
load_state(file, config, today) ==
    IF file # None
    THEN IF Decodes(file[1])
         THEN check_monthly_resets(file[1], today)
         ELSE initialize_state(config, today)
    ELSE initialize_state(config, today)

\* PersistentAPIUsageTracker.save_state: the content written to the file.
save_state(state, today) ==
    [state EXCEPT !.metadata.last_updated = DateOf(today)]

\* sorted(keys, key=lambda x: x['priority']): a stable insertion sort.
RECURSIVE InsertByPriority(_, _)
InsertByPriority(sorted, key_info) ==
    IF sorted = << >>
    THEN <<key_info>>
    ELSE IF sorted[Len(sorted)].priority <= key_info.priority
         THEN Append(sorted, key_info)
         ELSE Append(InsertByPriority(SubSeq(sorted, 1, Len(sorted) - 1), key_info),
                     sorted[Len(sorted)])

RECURSIVE SortedByPriority(_)
SortedByPriority(keys) ==
    IF keys = << >>
    THEN << >>
    ELSE InsertByPriority(SortedByPriority(SubSeq(keys, 1, Len(keys) - 1)),
                          keys[Len(keys)])

\* Mutant of HasQuota: a key with nothing left still counts as available.
HasQuota_OrZero(remaining) == remaining >= 0

\* `if remaining > 0:`
HasQuota(remaining) == remaining > 0

\* The loop of get_available_key from position i of sorted_keys: the first
\* key with quota left and what is left of it, "none" after the last key,
\* "KeyError" at a key the state has no record of.
RECURSIVE FirstAvailable(_, _, _)
FirstAvailable(sorted_keys, state, i) ==
    IF i > Len(sorted_keys)
    THEN [kind |-> "none"]
    ELSE LET key_info == sorted_keys[i]
         IN  IF key_info.label \notin DOMAIN state.api_keys
             THEN [kind |-> "KeyError"]
             ELSE LET used == state.api_keys[key_info.label].total_calls_used
                      remaining == key_info.monthly_limit - used
                  IN  IF HasQuota(remaining)
                      THEN [kind |-> "key", key_info |-> key_info,
                            remaining |-> remaining]
                      ELSE FirstAvailable(sorted_keys, state, i + 1)

\* Mutant of DailyAdd: the day's entry is overwritten instead of added to.
DailyAdd_Overwrite(daily, date, calls) ==
    [d \in DOMAIN daily \cup {date} |-> IF d = date THEN calls ELSE daily[d]]

\* `daily[today] = daily.get(today, 0) + calls` on a dict held as a function.
DailyAdd(daily, date, calls) ==
    IF date \in DOMAIN daily
    THEN [daily EXCEPT ![date] = @ + calls]
    ELSE [d \in DOMAIN daily \cup {date} |->
              IF d = date THEN calls ELSE daily[d]]

\* The dict daily_usage is a function from dates; << >> is the empty one.
\* increment_usage on a state that has the key's record (lines 222-228).
increment_record(record, today, calls) ==
    [record EXCEPT !.total_calls_used = @ + calls,
                   !.daily_usage = DailyAdd(@, DateOf(today), calls)]

----------------------------------------------------------------------------
(* Tracker actions *)

TrackerBuilt(config) ==
    /\ trConfig = config
    /\ trToday = [month |-> 1, day |-> 1]
    /\ trState = initialize_state(config, trToday)
    /\ trCurrent = None
    /\ trFile = None
    /\ trAlive = TRUE
    /\ trOp = "__init__"
    /\ trRet = None
    /\ trWaited = FALSE
    /\ trIncs = 0
    /\ trRaised = None
    /\ trArg = None
    /\ trLoaded = [this |-> DateOf(trToday), saved |-> None]

\* A tracker constructed without a state file, over two keys with any
\* priorities and limits.
TrackerInit ==
    \E pa \in 1..2, pb \in 1..2, la \in 1..MaxLimit, lb \in 1..MaxLimit :
        TrackerBuilt(<<KeyInfo(Labels[1], pa, la), KeyInfo(Labels[2], pb, lb)>>)

\* The tracker as constructed, not called.
TrackerParked ==
    TrackerBuilt(<<KeyInfo(Labels[1], 1, 1), KeyInfo(Labels[2], 2, 1)>>)

\* Mutant of KeySwitch: the first key of a run counts as a switch too.
KeySwitch_AlsoFirst(current_key, label) == current_key # Some(label)

\* `if self.current_key and self.current_key != label:` (labels are not empty)
KeySwitch(current_key, label) ==
    current_key # None /\ current_key # Some(label)

\* get_available_key().  When the selected key differs from an active one,
\* announce_key_switch waits 60 seconds, unless Ctrl+C makes it sys.exit(0).
\* The KeyError of a key without a record is not caught by any caller and
\* ends the process as well.
GetAvailableKey(interrupted) ==
    LET found == FirstAvailable(SortedByPriority(trConfig), trState, 1)
        switch == /\ found.kind = "key"
                  /\ KeySwitch(trCurrent, found.key_info.label)
    IN  /\ trAlive
        /\ interrupted => switch
        /\ trOp' = "get_available_key"
        /\ trArg' = None
        /\ IF interrupted \/ found.kind = "KeyError"
           THEN /\ trAlive' = FALSE
                /\ trRaised' = Some(IF interrupted THEN "SystemExit" ELSE "KeyError")
                /\ trWaited' = interrupted
                /\ UNCHANGED <<trState, trCurrent, trFile, trRet, trLoaded>>
           ELSE /\ trAlive' = TRUE
                /\ trRaised' = None
                /\ trWaited' = switch
                /\ IF found.kind = "key"
                   THEN /\ trCurrent' = Some(found.key_info.label)
                        /\ trState' = save_state(
                               [trState EXCEPT !.metadata.current_key =
                                                   Some(found.key_info.label)],
                               trToday)
                        /\ trFile' = Some(trState')
                        /\ trLoaded' = [trLoaded EXCEPT !.saved = Some(trLoaded.this)]
                        /\ trRet' = Some([key_info  |-> Some(found.key_info),
                                          remaining |-> found.remaining])
                   ELSE /\ trRet' = Some([key_info |-> None, remaining |-> 0])
                        /\ UNCHANGED <<trState, trCurrent, trFile, trLoaded>>
        /\ UNCHANGED <<trConfig, trToday, trIncs>>
        /\ UNCHANGED notTracker

\* increment_usage(key_label, calls) for a configured key: the record is
\* created when the state lacks it, the total and the day's entry grow by
\* `calls`, and the state is saved (check_warnings only prints).
IncrementUsage(i, calls) ==
    LET key_info == trConfig[i]
        label == key_info.label
        record == IF label \in DOMAIN trState.api_keys
                  THEN trState.api_keys[label]
                  ELSE FreshRecord(key_info, trToday)
        api_keys == [ l \in DOMAIN trState.api_keys \cup {label} |->
                        IF l = label
                        THEN increment_record(record, trToday, calls)
                        ELSE trState.api_keys[l] ]
    IN  /\ trAlive
        /\ trIncs < MaxIncs
        /\ trIncs' = trIncs + 1
        /\ trState' = save_state([trState EXCEPT !.api_keys = api_keys], trToday)
        /\ trFile' = Some(trState')
        /\ trOp' = "increment_usage"
        /\ trArg' = Some([key_label |-> label, calls |-> calls])
        /\ trLoaded' = [trLoaded EXCEPT !.saved = Some(trLoaded.this)]
        /\ UNCHANGED <<trConfig, trCurrent, trToday, trAlive, trRet, trWaited,
                       trRaised>>
        /\ UNCHANGED notTracker

\* The record of the last call (trOp, trRet, trWaited, trArg) describes the
\* state right after that call; it is dropped when time moves on or the file
\* is changed from outside.
TrackerCallForgotten ==
    /\ trOp' = "idle"
    /\ trRet' = None
    /\ trWaited' = FALSE
    /\ trArg' = None

\* Midnight: datetime.now() moves to the next day.
TrackerNextDay ==
    /\ trAlive
    /\ trToday.day < MaxDay
    /\ trToday' = [trToday EXCEPT !.day = @ + 1]
    /\ TrackerCallForgotten
    /\ UNCHANGED <<trConfig, trState, trCurrent, trFile, trAlive, trIncs, trRaised,
                   trLoaded>>
    /\ UNCHANGED notTracker

\* The process is started (again): PersistentAPIUsageTracker(config) reads
\* the state file.  Between two runs the operator may have added key B to
\* config.json.
TrackerRestart(config) ==
    LET state == load_state(trFile, config, trToday)
    IN  /\ trConfig' = config
        /\ trOp' = "__init__"
        /\ trRet' = None
        /\ trWaited' = FALSE
        /\ trArg' = None
        /\ trLoaded' = [trLoaded EXCEPT !.this = DateOf(trToday)]
        /\ IF LoadRaises(trFile) # None
           THEN /\ trAlive' = FALSE
                /\ trRaised' = LoadRaises(trFile)
                /\ UNCHANGED <<trState, trCurrent>>
           ELSE /\ trAlive' = TRUE
                /\ trRaised' = None
                /\ trState' = state
                /\ trCurrent' = state.metadata.current_key
        /\ UNCHANGED <<trFile, trToday, trIncs>>
        /\ UNCHANGED notTracker

\* The state file is damaged outside the tracker (a write cut short, a bad
\* disk): what is left is not JSON.
TrackerFileCorrupted(damage) ==
    /\ trFile # None
    /\ Decodes(trFile[1])
    /\ trFile' = Some(Corrupted(damage))
    /\ TrackerCallForgotten
    /\ UNCHANGED <<trConfig, trState, trCurrent, trToday, trAlive, trIncs,
                   trRaised, trLoaded>>
    /\ UNCHANGED notTracker

\* Midnight in a run that spans months.
TrackerNextDate ==
    /\ trToday.day < DaysInMonth \/ trToday.month < MaxMonth
    /\ trToday' = IF trToday.day < DaysInMonth
                  THEN [trToday EXCEPT !.day = @ + 1]
                  ELSE [month |-> trToday.month + 1, day |-> 1]
    /\ TrackerCallForgotten
    /\ UNCHANGED <<trConfig, trState, trCurrent, trFile, trAlive, trIncs, trRaised,
                   trLoaded>>
    /\ UNCHANGED notTracker

\* The configurations a restart may find: the one of the last run, or that
\* one with key B added to config.json before or after key A in priority.
NextConfigs ==
    {trConfig} \cup
    IF Len(trConfig) = 1
    THEN { Append(trConfig, KeyInfo(Labels[2], p, MaxLimit)) : p \in {1, 3} }
    ELSE {}

\* Several runs over several months: keys A and B, A's billing cycle starting
\* on any day of the month.  The program adds one call at a time
\* (AeroComps.py line 391).
LifecycleInit ==
    \E da \in 1..DaysInMonth :
        TrackerBuilt(<<KeyInfoOn(Labels[1], 1, MaxLimit, da),
                       KeyInfoOn(Labels[2], 2, MaxLimit, 1)>>)

LifecycleNext ==
    \/ \E i \in 1..Len(trConfig) : IncrementUsage(i, 1)
    \/ TrackerRestart(trConfig)
    \/ TrackerNextDate

\* Several runs within one month, with a state file that may be damaged and
\* a configuration that may gain a key between two runs.
RecoveryInit ==
    TrackerBuilt(<<KeyInfo(Labels[1], 2, MaxLimit)>>)

RecoveryNext ==
    \/ \E interrupted \in BOOLEAN : GetAvailableKey(interrupted)
    \/ \E i \in 1..Len(trConfig) : IncrementUsage(i, 1)
    \/ \E config \in NextConfigs : TrackerRestart(config)
    \/ \E damage \in Damages : TrackerFileCorrupted(damage)
    \/ TrackerNextDay

TrackerNext ==
    \/ \E interrupted \in BOOLEAN : GetAvailableKey(interrupted)
    \/ \E i \in 1..Len(trConfig), calls \in 1..MaxIncrement : IncrementUsage(i, calls)
    \/ TrackerNextDay

----------------------------------------------------------------------------
(* EnhancedHealthMonitor *)

\* ALERT_THRESHOLDS['rate_limit_errors']
RateLimitErrorsThreshold == 2

\* `if self.consecutive_failures >= 5:`
FallbackConsecutiveFailures == 5

\* `if self.metrics['companies_processed'] >= 10:`
FallbackMinProcessed == 10

\* `if success_rate < 0.15:`, in percent
FallbackSuccessPercent == 15

\* ALERT_THRESHOLDS['company_success_rate'], in percent
AlertSuccessPercent == 10

\* The status codes record_call is given: 0 when no response came, else the
\* response's code.
StatusCodes == {0, 200, 204, 401, 402, 403, 404, 429, 500, 503}

\* EnhancedHealthMonitor.__init__
EnhancedHealthMonitor ==
    [ total_calls          |-> 0,
      successful_calls     |-> 0,
      failed_calls         |-> 0,
      rate_limit_errors    |-> 0,
      server_errors        |-> 0,
      auth_errors          |-> 0,
      companies_processed  |-> 0,
      companies_with_jobs  |-> 0,
      total_jobs_found     |-> 0,
      response_times       |-> << >>,
      consecutive_failures |-> 0 ]

\* Mutant of ErrorCategory: every code from 200 up counts as a server error.
ErrorCategory_From200(status_code) ==
    IF status_code \in {403, 429} THEN "rate_limit_errors"
    ELSE IF status_code \in {401, 402} THEN "auth_errors"
    ELSE IF status_code >= 200 THEN "server_errors"
    ELSE "none"

\* The if / elif / elif of record_call that categorizes errors.
ErrorCategory(status_code) ==
    IF status_code \in {403, 429} THEN "rate_limit_errors"
    ELSE IF status_code \in {401, 402} THEN "auth_errors"
    ELSE IF status_code >= 500 THEN "server_errors"
    ELSE "none"

\* Mutant of record_call: a success also clears rate_limit_errors, the way it
\* clears consecutive_failures.
record_call_ClearsOnSuccess(self, status_code, jobs_found, response_time_ms) ==
    LET ok == status_code = 200
        category == ErrorCategory(status_code)
    IN  [ total_calls          |-> self.total_calls + 1,
          companies_processed  |-> self.companies_processed + 1,
          response_times       |-> Append(self.response_times, response_time_ms),
          successful_calls     |-> self.successful_calls + (IF ok THEN 1 ELSE 0),
          failed_calls         |-> self.failed_calls + (IF ok THEN 0 ELSE 1),
          consecutive_failures |-> IF ok THEN 0 ELSE self.consecutive_failures + 1,
          rate_limit_errors    |-> IF ok THEN 0
                                   ELSE self.rate_limit_errors
                                          + (IF category = "rate_limit_errors" THEN 1 ELSE 0),
          auth_errors          |-> self.auth_errors
                                     + (IF category = "auth_errors" THEN 1 ELSE 0),
          server_errors        |-> self.server_errors
                                     + (IF category = "server_errors" THEN 1 ELSE 0),
          companies_with_jobs  |-> self.companies_with_jobs
                                     + (IF jobs_found > 0 THEN 1 ELSE 0),
          total_jobs_found     |-> self.total_jobs_found
                                     + (IF jobs_found > 0 THEN jobs_found ELSE 0) ]

\* EnhancedHealthMonitor.record_call (_check_alerts only prints)
record_call(self, status_code, jobs_found, response_time_ms) ==
    LET ok == status_code = 200
        category == ErrorCategory(status_code)
    IN  [ total_calls          |-> self.total_calls + 1,
          companies_processed  |-> self.companies_processed + 1,
          response_times       |-> Append(self.response_times, response_time_ms),
          successful_calls     |-> self.successful_calls + (IF ok THEN 1 ELSE 0),
          failed_calls         |-> self.failed_calls + (IF ok THEN 0 ELSE 1),
          consecutive_failures |-> IF ok THEN 0 ELSE self.consecutive_failures + 1,
          rate_limit_errors    |-> self.rate_limit_errors
                                     + (IF category = "rate_limit_errors" THEN 1 ELSE 0),
          auth_errors          |-> self.auth_errors
                                     + (IF category = "auth_errors" THEN 1 ELSE 0),
          server_errors        |-> self.server_errors
                                     + (IF category = "server_errors" THEN 1 ELSE 0),
          companies_with_jobs  |-> self.companies_with_jobs
                                     + (IF jobs_found > 0 THEN 1 ELSE 0),
          total_jobs_found     |-> self.total_jobs_found
                                     + (IF jobs_found > 0 THEN jobs_found ELSE 0) ]

\* Mutant of LowSuccessRate: the floor of the alert (10%) instead of 15%.
LowSuccessRate_AlertFloor(self) ==
    /\ self.companies_processed >= FallbackMinProcessed
    /\ 100 * self.companies_with_jobs < AlertSuccessPercent * self.companies_processed

\* `companies_processed >= 10` and `success_rate < 0.15`
LowSuccessRate(self) ==
    /\ self.companies_processed >= FallbackMinProcessed
    /\ 100 * self.companies_with_jobs < FallbackSuccessPercent * self.companies_processed

\* EnhancedHealthMonitor.should_trigger_fallback: (should_trigger, reason)
should_trigger_fallback(self) ==
    IF self.rate_limit_errors >= RateLimitErrorsThreshold
    THEN [trigger |-> TRUE, reason |-> Some("rate_limit_errors")]
    ELSE IF self.consecutive_failures >= FallbackConsecutiveFailures
         THEN [trigger |-> TRUE, reason |-> Some("consecutive_failures")]
         ELSE IF LowSuccessRate(self)
              THEN [trigger |-> TRUE, reason |-> Some("low_success_rate")]
              ELSE [trigger |-> FALSE, reason |-> None]

\* The monitor as constructed.
HealthInit ==
    /\ hm = EnhancedHealthMonitor
    /\ hmOp = "__init__"
    /\ hmArg = None
    /\ hmRet = None
    /\ hmNon2xx = 0
    /\ hmRecorded = 0

HealthParked == HealthInit

\* record_call(status_code, company, jobs_found, response_time_ms); the
\* response time is kept but no method reads it back, one value stands for all.
RecordCall(status_code, jobs_found) ==
    /\ hm.total_calls < MaxRecorded
    /\ hm' = record_call(hm, status_code, jobs_found, 0)
    /\ hmOp' = "record_call"
    /\ hmArg' = Some([status_code |-> status_code, jobs_found |-> jobs_found])
    /\ hmRet' = None
    /\ hmNon2xx' = IF status_code \in 200..299 THEN 0 ELSE hmNon2xx + 1
    /\ hmRecorded' = hmRecorded + 1
    /\ UNCHANGED notHealth

\* should_trigger_fallback()
ShouldTriggerFallback ==
    /\ hmOp' = "should_trigger_fallback"
    /\ hmRet' = Some(should_trigger_fallback(hm))
    /\ hmArg' = None
    /\ UNCHANGED <<hm, hmNon2xx, hmRecorded>>
    /\ UNCHANGED notHealth

\* A monitor that has recorded n calls: s answered 200, r answered 429, the
\* others 404, the last c of them failures, and w of them with one job found.
\* (Without a success every failure is one of the consecutive ones.)
MonitorAfter(s, r, o, c, w) ==
    [ total_calls          |-> s + r + o,
      successful_calls     |-> s,
      failed_calls         |-> r + o,
      rate_limit_errors    |-> r,
      server_errors        |-> 0,
      auth_errors          |-> 0,
      companies_processed  |-> s + r + o,
      companies_with_jobs  |-> w,
      total_jobs_found     |-> w,
      response_times       |-> [i \in 1..(s + r + o) |-> 0],
      consecutive_failures |-> c ]

FallbackInit ==
    \E s \in 0..MaxProcessed, r \in 0..MaxRateLimited, o \in 0..MaxProcessed :
        /\ s + r + o <= MaxProcessed
        /\ \E c \in 0..(r + o), w \in 0..(s + r + o) :
               /\ s = 0 => c = r + o
               /\ hm = MonitorAfter(s, r, o, c, w)
               /\ hmOp = "record_call"
               /\ hmArg = None
               /\ hmRet = None
               /\ hmNon2xx = c
               /\ hmRecorded = s + r + o

FallbackNext == ShouldTriggerFallback

HealthNext ==
    \/ \E status_code \in StatusCodes, jobs_found \in 0..MaxJobs :
           RecordCall(status_code, jobs_found)
    \/ ShouldTriggerFallback

----------------------------------------------------------------------------
(* IntelligentBatchProcessor *)

\* The values random.uniform(0.15, 0.30) is drawn from, in percent.
JitterPercents == {15, 22, 30}

\* __init__(batch_size, min_pause, max_pause)
IntelligentBatchProcessor(batch_size, min_pause, max_pause) ==
    [ batch_size        |-> batch_size,
      min_pause         |-> min_pause,
      max_pause         |-> max_pause,
      batches_processed |-> 0 ]

\* A base pause that keeps growing past max_pause.
base_pause_Uncapped(self) == self.min_pause * (10 + self.batches_processed)

\* `base_pause` in tenths of a second:
\* min(min_pause * (1.0 + batches_processed * 0.1), max_pause)
base_pause(self) ==
    Min(self.min_pause * (10 + self.batches_processed), 10 * self.max_pause)

\* calculate_pause() when random.uniform returns jitter_pct percent: the
\* returned duration with its two terms, in thousandths of a second.
calculate_pause(self, jitter_pct) ==
    [ base   |-> 100 * base_pause(self),
      jitter |-> base_pause(self) * jitter_pct,
      pause  |-> 100 * base_pause(self) + base_pause(self) * jitter_pct ]

\* `total_batches`
total_batches(n, batch_size) == (n + batch_size - 1) \div batch_size

\* A pause test that also pauses after a last batch that is full.
MorePending_Inclusive(i, batch_size, n) == i + batch_size <= n

\* The test before the pause: another batch follows this one.
MorePending(i, batch_size, n) == i + batch_size < n

\* `batch = items[i:i + self.batch_size]`, as the positions it covers
BatchEnd(i, batch_size, n) == Min(i + batch_size, n)

\* What process_func returns for an item.
ResultOf(item) == <<"result", item>>

BatchInit ==
    \E batch_size \in 1..MaxBatchSize, min_pause \in 1..MaxMinPause :
        \E max_pause \in min_pause..MaxMaxPause :
            /\ bp = IntelligentBatchProcessor(batch_size, min_pause, max_pause)
            /\ bpPc = "idle"
            /\ bpItems = << >>
            /\ bpI = 0
            /\ bpBatch = << >>
            /\ bpResults = << >>
            /\ bpPause = None
            /\ bpTrace = << >>
            /\ bpBefore = 0
            /\ bpOp = "__init__"

\* A processor as constructed and not used.
BatchParked ==
    /\ bp = IntelligentBatchProcessor(1, 1, 1)
    /\ bpPc = "idle"
    /\ bpItems = << >>
    /\ bpI = 0
    /\ bpBatch = << >>
    /\ bpResults = << >>
    /\ bpPause = None
    /\ bpTrace = << >>
    /\ bpBefore = 0
    /\ bpOp = "__init__"

BatchResting == bpPc \in {"idle", "returned", "raised"}

\* calculate_pause() called on its own, as the job loop does.
CalculatePause(jitter_pct) ==
    /\ BatchResting
    /\ bpPause' = Some(calculate_pause(bp, jitter_pct))
    /\ bpOp' = "calculate_pause"
    /\ UNCHANGED <<bp, bpPc, bpItems, bpI, bpBatch, bpResults, bpTrace, bpBefore>>
    /\ UNCHANGED notBatch

\* process_in_batches(items, process_func) is called with n items: up to the
\* head of the outer loop, which an empty list leaves at once.
ProcessInBatches(n) ==
    /\ BatchResting
    /\ bp.batches_processed + total_batches(n, bp.batch_size) <= MaxBatches
    /\ bpItems' = [k \in 1..n |-> k]
    /\ bpI' = 0
    /\ bpBatch' = << >>
    /\ bpResults' = << >>
    /\ bpTrace' = << >>
    /\ bpBefore' = bp.batches_processed
    /\ bpPc' = IF n = 0 THEN "returned" ELSE "item"
    /\ bpOp' = "process_in_batches"
    /\ UNCHANGED <<bp, bpPause>>
    /\ UNCHANGED notBatch

\* process_func(item) returns for the next item of the batch; after the last
\* item of the batch the batch is closed and the pause, if any, is computed.
BatchItem(jitter_pct) ==
    /\ bpPc = "item"
    /\ LET n == Len(bpItems)
           item == bpItems[bpI + Len(bpBatch) + 1]
           batch_results == Append(bpBatch, ResultOf(item))
           last == bpI + Len(batch_results) = BatchEnd(bpI, bp.batch_size, n)
           closed == [bp EXCEPT !.batches_processed = @ + 1]
       IN  IF ~last
           THEN /\ bpBatch' = batch_results
                /\ bpTrace' = Append(bpTrace, <<"process_func", item>>)
                /\ UNCHANGED <<bp, bpPc, bpI, bpResults, bpPause>>
           ELSE /\ bpResults' = bpResults \o batch_results
                /\ bpBatch' = << >>
                /\ bp' = closed
                /\ IF MorePending(bpI, bp.batch_size, n)
                   THEN /\ bpPause' = Some(calculate_pause(closed, jitter_pct))
                        /\ bpPc' = "pause"
                        /\ bpTrace' = bpTrace \o <<(<<"process_func", item>>), <<"pause", 0>>>>
                        /\ UNCHANGED bpI
                   ELSE /\ bpPc' = "returned"
                        /\ bpI' = bpI + bp.batch_size
                        /\ bpTrace' = Append(bpTrace, <<"process_func", item>>)
                        /\ UNCHANGED bpPause
    /\ UNCHANGED <<bpItems, bpBefore, bpOp>>
    /\ UNCHANGED notBatch

\* process_func(item) raises: the error leaves process_in_batches().
BatchItemRaises ==
    /\ bpPc = "item"
    /\ bpPc' = "raised"
    /\ bpTrace' = Append(bpTrace, <<"process_func", bpItems[bpI + Len(bpBatch) + 1]>>)
    /\ UNCHANGED <<bp, bpItems, bpI, bpBatch, bpResults, bpPause, bpBefore, bpOp>>
    /\ UNCHANGED notBatch

\* The countdown of time.sleep() calls ends: on to the next batch.
BatchPauseOver ==
    /\ bpPc = "pause"
    /\ bpPc' = "item"
    /\ bpI' = bpI + bp.batch_size
    /\ UNCHANGED <<bp, bpItems, bpBatch, bpResults, bpPause, bpTrace, bpBefore, bpOp>>
    /\ UNCHANGED notBatch

BatchNext ==
    \/ \E n \in 0..MaxItems : ProcessInBatches(n)
    \/ \E jitter_pct \in JitterPercents : BatchItem(jitter_pct)
    \/ BatchItemRaises
    \/ BatchPauseOver
    \/ \E jitter_pct \in JitterPercents : CalculatePause(jitter_pct)

----------------------------------------------------------------------------
(* ConfigurationValidator and RateLimitProtectionCoordinator.__init__ *)

\* Intervals are counted in tenths of a second.
ABSOLUTE_MIN_INTERVAL == 20
RECOMMENDED_MIN_INTERVAL == 30
MAX_SAFE_THREADS == 3
MAX_SAFE_CALLS_PER_HOUR == 60
TenthsPerHour == 36000

\* config.get(key, default) on an entry that may be absent (None)
GetOr(entry, default) == IF entry = None THEN default ELSE entry[1]

\* An interval test that refuses nothing but an interval of zero.
TooAggressive_OnlyZero(min_interval) == min_interval < 1

\* `min_interval < cls.ABSOLUTE_MIN_INTERVAL`
TooAggressive(min_interval) == min_interval < ABSOLUTE_MIN_INTERVAL

\* ConfigurationValidator.validate(config): the errors and the warnings.
validate(config) ==
    LET settings == config.settings[1]
        min_interval == GetOr(settings.min_interval_seconds, 0)
        max_threads == GetOr(settings.max_threads, 1)
    IN  [ errors |->
            (IF config.api_keys = None \/ Len(GetOr(config.api_keys, << >>)) = 0
             THEN {"No API keys configured"} ELSE {})
            \cup (IF TooAggressive(min_interval)
                  THEN {"min_interval_seconds too aggressive"} ELSE {}),
          warnings |->
            (IF ~TooAggressive(min_interval)
                /\ min_interval < RECOMMENDED_MIN_INTERVAL
             THEN {"min_interval_seconds below recommended"} ELSE {})
            \cup (IF max_threads > MAX_SAFE_THREADS
                  THEN {"max_threads high for trial accounts"} ELSE {})
            \cup (IF min_interval > 0
                     /\ TenthsPerHour * max_threads
                            > MAX_SAFE_CALLS_PER_HOUR * min_interval
                  THEN {"calls/hour above safe limit"} ELSE {}) ]

\* ConfigurationValidator.get_safe_interval(requested_interval)
get_safe_interval(requested_interval) ==
    IF requested_interval < RECOMMENDED_MIN_INTERVAL
    THEN RECOMMENDED_MIN_INTERVAL
    ELSE requested_interval

\* The protection layers in the order the constructor builds them.
Layers ==
    << "rate_limiter", "circuit_breaker", "backoff", "batch_processor",
       "audit_logger", "health_monitor" >>

\* The configurations: api_keys absent, empty or with keys; settings absent or
\* with min_interval_seconds and max_threads each absent or set.
Intervals == (0..MaxTenths) \cup {600 * k : k \in 1..MaxThreads}

Configs ==
    [ api_keys : {None, Some(<< >>), Some(<<"A">>), Some(<<"A", "B">>)},
      settings : {None} \cup
                 { Some(st) : st \in [ min_interval_seconds :
                                           {None} \cup {Some(v) : v \in Intervals},
                                       max_threads :
                                           {None} \cup {Some(v) : v \in 1..MaxThreads} ] } ]

CoordinatorInit ==
    /\ coConfig \in Configs
    /\ coPc = "start"
    /\ coChecked = None
    /\ coBuilt = << >>
    /\ coRaised = None

\* No coordinator is being constructed.
CoordinatorParked ==
    /\ coConfig = [api_keys |-> None, settings |-> None]
    /\ coPc = "start"
    /\ coChecked = None
    /\ coBuilt = << >>
    /\ coRaised = None

\* The constructor up to the first layer: validate(config), which reads
\* config['settings'], the ValueError on errors, and the safe interval, which
\* reads config['settings']['min_interval_seconds'].
CoordinatorValidate ==
    /\ coPc = "start"
    /\ IF coConfig.settings = None
       THEN /\ coPc' = "raised"
            /\ coRaised' = Some("KeyError")
            /\ UNCHANGED coChecked
       ELSE /\ coChecked' = Some(validate(coConfig))
            /\ IF validate(coConfig).errors # {}
               THEN coPc' = "raised" /\ coRaised' = Some("ValueError")
               ELSE IF coConfig.settings[1].min_interval_seconds = None
                    THEN coPc' = "raised" /\ coRaised' = Some("KeyError")
                    ELSE coPc' = "building" /\ UNCHANGED coRaised
    /\ UNCHANGED <<coConfig, coBuilt>>
    /\ UNCHANGED notCoordinator

\* The next layer is constructed; the limiter refills one token every
\* safe interval.
CoordinatorBuild ==
    /\ coPc = "building"
    /\ LET layer == Layers[Len(coBuilt) + 1]
           made == IF layer = "rate_limiter"
                   THEN [ layer |-> layer,
                          interval |-> Some(get_safe_interval(
                              coConfig.settings[1].min_interval_seconds[1])) ]
                   ELSE [ layer |-> layer, interval |-> None ]
       IN  /\ coBuilt' = Append(coBuilt, made)
           /\ coPc' = IF Len(coBuilt) + 1 = Len(Layers) THEN "done" ELSE "building"
    /\ UNCHANGED <<coConfig, coChecked, coRaised>>
    /\ UNCHANGED notCoordinator

CoordinatorNext ==
    \/ CoordinatorValidate
    \/ CoordinatorBuild

----------------------------------------------------------------------------
(* LAYER 6: ComprehensiveAuditLogger *)

\* The log files of the two programs.
LogFiles == {"log/api_audit.jsonl", "log/enrichment_audit.jsonl"}

\* A line written by an earlier run.
OldRecord == [timestamp |-> 0, event_type |-> "api_call", fields |-> {"company"}]

\* A file opened in a mode that empties it.
OpenedForWriting(content) == << >>

\* logging.FileHandler(log_file) opens the file in its default mode, 'a':
\* what the file held stays.
Opened(content) == content

\* The record log_event(event_type, **kwargs) builds: the timestamp, the
\* event type and the caller's fields (kept by name).
log_entry(event_type, kwargs, utcnow) ==
    [timestamp |-> utcnow, event_type |-> event_type, fields |-> kwargs]

\* self.logger.info(json.dumps(log_entry)): every handler of the logger
\* appends the line to its file.
Logged(files, handlers, entry) ==
    [f \in LogFiles |->
        LET writers == Cardinality({k \in 1..Len(handlers) : handlers[k] = f})
        IN  IF writers = 0 THEN files[f]
            ELSE files[f] \o [k \in 1..writers |-> entry]]

\* The event type and the fields the helpers pass to log_event.
HelperEvents ==
    [ log_api_call |->
          [event_type |-> "api_call",
           kwargs |-> {"company", "status_code", "response_time_ms", "jobs_found",
                       "api_key_label"}],
      log_rate_limit |->
          [event_type |-> "rate_limit_detected",
           kwargs |-> {"severity", "status_code", "company", "message"}],
      log_circuit_breaker |->
          [event_type |-> "circuit_breaker_state_change",
           kwargs |-> {"severity", "state", "reason"}],
      log_error |->
          [event_type |-> "error",
           kwargs |-> {"severity", "error_type", "message", "company"}] ]

\* log_event called on its own: the constructor's event, or an event type
\* and fields of the caller's choosing.
DirectEvents ==
    { [event_type |-> "audit_logger_initialized", kwargs |-> {"log_file"}],
      [event_type |-> "custom", kwargs |-> {}] }

AuditInit ==
    /\ \E n \in [LogFiles -> 0..MaxOldRecords] :
           alFiles = [f \in LogFiles |-> [k \in 1..n[f] |-> OldRecord]]
    /\ alHandlers = << >>
    /\ alLoggers = {}
    /\ alNow \in 0..MaxAuditTime
    /\ alOp = None
    /\ alCalls = 0

\* No audit logger has been constructed.
AuditParked ==
    /\ alFiles = [f \in LogFiles |-> << >>]
    /\ alHandlers = << >>
    /\ alLoggers = {}
    /\ alNow = 0
    /\ alOp = None
    /\ alCalls = 0

\* ComprehensiveAuditLogger(log_file): the handlers of the shared logger are
\* cleared, a FileHandler on log_file is added, and the initialization is logged.
AuditConstruct(log_file) ==
    /\ alCalls < MaxEvents
    /\ LET handlers == <<log_file>>
           opened == [alFiles EXCEPT ![log_file] = Opened(@)]
       IN  /\ alHandlers' = handlers
           /\ alFiles' = Logged(opened, handlers,
                                log_entry("audit_logger_initialized", {"log_file"}, alNow))
    /\ alLoggers' = alLoggers \cup {log_file}
    /\ alOp' = Some([method |-> "__init__", self |-> log_file])
    /\ alCalls' = alCalls + 1
    /\ UNCHANGED alNow
    /\ UNCHANGED notAudit

\* self.log_event(event_type, **kwargs)
LogEvent(self, event) ==
    /\ self \in alLoggers
    /\ alCalls < MaxEvents
    /\ alFiles' = Logged(alFiles, alHandlers,
                         log_entry(event.event_type, event.kwargs, alNow))
    /\ alOp' = Some([method |-> "log_event", self |-> self])
    /\ alCalls' = alCalls + 1
    /\ UNCHANGED <<alHandlers, alLoggers, alNow>>
    /\ UNCHANGED notAudit

\* self.log_api_call(...), log_rate_limit(...), log_circuit_breaker(...) or
\* log_error(...): one log_event call with the helper's event type.
LogHelper(self, method) ==
    /\ self \in alLoggers
    /\ alCalls < MaxEvents
    /\ alFiles' = Logged(alFiles, alHandlers,
                         log_entry(HelperEvents[method].event_type,
                                   HelperEvents[method].kwargs, alNow))
    /\ alOp' = Some([method |-> method, self |-> self])
    /\ alCalls' = alCalls + 1
    /\ UNCHANGED <<alHandlers, alLoggers, alNow>>
    /\ UNCHANGED notAudit

\* Time passes.
AuditTick ==
    /\ alNow < MaxAuditTime
    /\ alNow' = alNow + 1
    /\ UNCHANGED <<alFiles, alHandlers, alLoggers, alOp, alCalls>>
    /\ UNCHANGED notAudit

AuditNext ==
    \/ \E log_file \in LogFiles : AuditConstruct(log_file)
    \/ \E self \in LogFiles, event \in DirectEvents : LogEvent(self, event)
    \/ \E self \in LogFiles, method \in DOMAIN HelperEvents : LogHelper(self, method)
    \/ AuditTick

----------------------------------------------------------------------------
(* The call path: safe_api_request (AeroComps.py) and
   BaseEnrichmentConnector.enrich (market_intel/connectors/base.py) *)

\* What the external request can do: answer with a status, or raise.
RequestOutcomes ==
    { [kind |-> "response", status_code |-> c] : c \in {200, 429, 500} }
        \cup { [kind |-> "raise", status_code |-> 0] }

\* A `with` block that keeps its lock when it is left.
Left_StillHeld(holder, w) == holder

\* The `with` block of a lock is left: the lock is released.
Left(holder, w) == IF holder = w THEN "free" ELSE holder

\* A circuit-breaker test that lets every call through.
Refused_Never(available) == FALSE

\* `if not circuit_breaker.is_available():`
Refused(available) == ~available

\* A report that takes every answer for a success.
ReportOf_AnyAnswer(outcome) ==
    IF outcome.kind = "raise" THEN "record_failure" ELSE "record_success"

\* `if response.status_code == 200: record_success() else: record_failure()`,
\* and record_failure() in the except branch.
ReportOf(outcome) ==
    IF outcome.kind = "response" /\ outcome.status_code = 200
    THEN "record_success"
    ELSE "record_failure"

\* The locks worker w holds.
HeldBy(w) ==
    (IF rqApiLock = w THEN {"api_lock"} ELSE {})
        \cup (IF tbLock = w THEN {"rate_limiter.lock"} ELSE {})
        \cup (IF rqCbLock = w THEN {"circuit_breaker.lock"} ELSE {})

\* The ghosts of the components' own specifications, which the call path
\* does not keep.
cbRecord == <<cbOp, cbRet, cbPre, cbPreNow, cbStreak, cbProbes, cbFailAt, cbAdmitted>>
tbRecord == <<tbPc, tbNeed, tbFound, tbNapped, tbNet, tbCalls, tbLast, tbRecent>>
trRecord == <<trConfig, trCurrent, trToday, trAlive, trOp, trRet, trWaited, trIncs,
              trRaised, trArg, trLoaded>>

\* The tracker's state as a run finds it: key A with `used` calls counted by
\* earlier runs today.
StateWithUsage(config, today, used) ==
    LET fresh == initialize_state(config, today)
    IN  IF used = 0
        THEN fresh
        ELSE save_state(
                 [fresh EXCEPT !.api_keys[config[1].label] =
                                   increment_record(@, today, used)],
                 today)

\* The job loop has not started.
JobLoopParked ==
    /\ jlPc = "idle"
    /\ jlCompany = 0
    /\ jlPage = 0
    /\ jlAttempt = 0
    /\ jlHandled = 0
    /\ jlLocal = 0
    /\ jlResults = 0
    /\ jlReported = None

RequestIdle ==
    /\ rqPc = [w \in Threads |-> "idle"]
    /\ rqApiLock = "free"
    /\ rqCbLock = "free"
    /\ rqApiCalls = 0
    /\ rqLimitReached = FALSE
    /\ rqOutcome = [w \in Threads |-> None]
    /\ rqRet = [w \in Threads |-> None]
    /\ rqTrace = [w \in Threads |-> << >>]
    /\ rqStarted = 0
    /\ rqIssued = 0
    /\ rqOrder = {}

\* No worker runs.
RequestParked ==
    /\ rqPath = [w \in Threads |-> "none"]
    /\ rqMax = 1
    /\ RequestIdle

\* AeroComps.py at the start of a run: the coordinator's layers, the tracker
\* constructed over key A and what earlier runs have used of it, the run's
\* counters.
RunLayers ==
    /\ rqMax \in 1..MaxApiCalls
    /\ RequestIdle
    /\ \E ft \in 1..MaxRunThreshold :
           /\ cb = CircuitBreaker(ft, 1, 1)
           /\ now = 1
           /\ cbOp = "__init__"
           /\ cbRet = None
           /\ cbPre = cb
           /\ cbPreNow = now
           /\ cbStreak = 0
           /\ cbProbes = 0
           /\ cbFailAt = None
           /\ cbAdmitted = 0
    /\ LimiterParked
    /\ \E limit \in 1..MaxLimit : \E used \in 0..limit :
           LET config == <<KeyInfo(Labels[1], 1, limit)>>
               today == [month |-> 1, day |-> 1]
           IN  /\ trConfig = config
               /\ trToday = today
               /\ trState = StateWithUsage(config, today, used)
               /\ trCurrent = None
               /\ trFile = IF used = 0 THEN None ELSE Some(trState)
               /\ trAlive = TRUE
               /\ trOp = "__init__"
               /\ trRet = None
               /\ trWaited = FALSE
               /\ trIncs = 0
               /\ trRaised = None
               /\ trArg = None
               /\ trLoaded = [this |-> DateOf(today),
                              saved |-> IF used = 0 THEN None ELSE Some(DateOf(today))]

\* Two workers in safe_api_request.
RequestInit ==
    /\ rqPath = [w \in Threads |-> "safe_api_request"]
    /\ RunLayers

\* A connector at the start of a run: one caller, no tracker, no api_lock.
EnrichInit ==
    /\ rqPath = [w \in Threads |-> IF w = "w1" THEN "enrich" ELSE "none"]
    /\ rqMax = 1
    /\ RequestIdle
    /\ \E ft \in 1..MaxRunThreshold, to \in 1..MaxTimeout :
           /\ cb = CircuitBreaker(ft, to, 1)
           /\ now = 1
           /\ cbOp = "__init__"
           /\ cbRet = None
           /\ cbPre = cb
           /\ cbPreNow = now
           /\ cbStreak = 0
           /\ cbProbes = 0
           /\ cbFailAt = None
           /\ cbAdmitted = 0
    /\ \E capacity \in 1..MaxCapacity :
           tb = TokenBucketRateLimiter(capacity, 1)
    /\ LimiterIdle
    /\ TrackerParked

\* The key the run uses: `API_KEY_LABEL`, set at startup from what
\* get_available_key() returned.
ApiKeySelected ==
    /\ trAlive
    /\ trOp # "__init__"
    /\ trRet # None
    /\ trRet[1].key_info # None

API_KEY_LABEL == trRet[1].key_info[1].label

\* Startup (AeroComps.py lines 182-200): get_available_key(); without a key
\* the program exits before any request.
Startup ==
    /\ \E w \in Threads : rqPath[w] = "safe_api_request"
    /\ trOp = "__init__"
    /\ GetAvailableKey(FALSE)

\* Worker w calls safe_api_request(params, company), or enrich(company), and
\* comes to `circuit_breaker.is_available()`.
RequestCall(w) ==
    /\ rqPath[w] # "none"
    /\ rqPath[w] = "safe_api_request" => ApiKeySelected
    /\ rqPc[w] = "idle"
    /\ rqStarted < MaxRequests
    /\ rqStarted' = rqStarted + 1
    /\ rqPc' = [rqPc EXCEPT ![w] = "is_available"]
    /\ rqOutcome' = [rqOutcome EXCEPT ![w] = None]
    /\ rqRet' = [rqRet EXCEPT ![w] = None]
    /\ rqTrace' = [rqTrace EXCEPT ![w] = << >>]
    /\ UNCHANGED <<rqPath, rqApiLock, rqCbLock, rqApiCalls, rqMax, rqLimitReached,
                   rqIssued, rqOrder>>
    /\ UNCHANGED <<cbVars, tbVars, trVars, notRequest>>

\* `with self.lock:` of the circuit breaker is entered, in is_available(),
\* record_success() or record_failure().
RequestBreakerLock(w) ==
    /\ rqPc[w] \in {"is_available", "report"}
    /\ rqCbLock = "free"
    /\ rqCbLock' = w
    /\ rqOrder' = rqOrder \cup {<<held, "circuit_breaker.lock">> : held \in HeldBy(w)}
    /\ rqPc' = [rqPc EXCEPT ![w] = IF @ = "is_available" THEN "available" ELSE "record"]
    /\ UNCHANGED <<rqPath, rqApiLock, rqApiCalls, rqMax, rqLimitReached, rqOutcome,
                   rqRet, rqTrace, rqStarted, rqIssued>>
    /\ UNCHANGED <<cbVars, tbVars, trVars, notRequest>>

\* is_available() under the lock, and the test of its result: a refusal sets
\* api_limit_reached and returns None (safe_api_request) or returns the
\* result with the error message (enrich).
RequestAvailable(w) ==
    /\ rqPc[w] = "available"
    /\ LET r == is_available(cb, now)
       IN  /\ cb' = r.self
           /\ rqCbLock' = Left(rqCbLock, w)
           /\ rqTrace' = [rqTrace EXCEPT ![w] = Append(@, <<"is_available", r.ret>>)]
           /\ IF Refused(r.ret)
              THEN /\ rqPc' = [rqPc EXCEPT ![w] = "idle"]
                   /\ rqRet' = [rqRet EXCEPT ![w] = Some("refused: circuit open")]
                   /\ rqLimitReached' =
                          (rqLimitReached \/ rqPath[w] = "safe_api_request")
              ELSE /\ rqPc' = [rqPc EXCEPT ![w] =
                                  IF rqPath[w] = "safe_api_request"
                                  THEN "api_lock" ELSE "acquire"]
                   /\ UNCHANGED <<rqRet, rqLimitReached>>
    /\ UNCHANGED <<rqPath, rqApiLock, rqApiCalls, rqMax, rqOutcome, rqStarted,
                   rqIssued, rqOrder>>
    /\ UNCHANGED <<now, cbRecord, tbVars, trVars, notRequest>>

\* `with api_lock:` is entered.
RequestApiLock(w) ==
    /\ rqPc[w] = "api_lock"
    /\ rqApiLock = "free"
    /\ rqApiLock' = w
    /\ rqOrder' = rqOrder \cup {<<held, "api_lock">> : held \in HeldBy(w)}
    /\ rqPc' = [rqPc EXCEPT ![w] = "quota"]
    /\ UNCHANGED <<rqPath, rqCbLock, rqApiCalls, rqMax, rqLimitReached, rqOutcome,
                   rqRet, rqTrace, rqStarted, rqIssued>>
    /\ UNCHANGED <<cbVars, tbVars, trVars, notRequest>>

\* `if api_calls >= MAX_API_CALLS:` sets api_limit_reached and returns None;
\* otherwise on to rate_limiter.acquire(1).
RequestQuota(w) ==
    /\ rqPc[w] = "quota"
    /\ IF rqApiCalls >= rqMax
       THEN /\ rqLimitReached' = TRUE
            /\ rqApiLock' = Left(rqApiLock, w)
            /\ rqPc' = [rqPc EXCEPT ![w] = "idle"]
            /\ rqRet' = [rqRet EXCEPT ![w] = Some("refused: run limit")]
       ELSE /\ rqPc' = [rqPc EXCEPT ![w] = "acquire"]
            /\ UNCHANGED <<rqLimitReached, rqApiLock, rqRet>>
    /\ UNCHANGED <<rqPath, rqCbLock, rqApiCalls, rqMax, rqOutcome, rqTrace,
                   rqStarted, rqIssued, rqOrder>>
    /\ UNCHANGED <<cbVars, tbVars, trVars, notRequest>>

\* rate_limiter.acquire(1): `with self.lock:` is entered.
RequestLimiterLock(w) ==
    /\ rqPc[w] = "acquire"
    /\ tbLock = "free"
    /\ tbLock' = w
    /\ rqOrder' = rqOrder \cup {<<held, "rate_limiter.lock">> : held \in HeldBy(w)}
    /\ rqPc' = [rqPc EXCEPT ![w] = "refill"]
    /\ UNCHANGED <<rqPath, rqApiLock, rqCbLock, rqApiCalls, rqMax, rqLimitReached,
                   rqOutcome, rqRet, rqTrace, rqStarted, rqIssued>>
    /\ UNCHANGED <<tb, tbRecord, tbDeficit, tbSlept>>
    /\ UNCHANGED <<cbVars, trVars, notRequest>>

\* The loop of acquire(1): _refill(), then the token is taken and acquire
\* returns, or the sleep starts.
RequestRefill(w) ==
    /\ rqPc[w] = "refill"
    /\ IF Enough(refill(tb), 1)
       THEN /\ tb' = deduct(refill(tb), 1)
            /\ tbLock' = Left(tbLock, w)
            /\ rqTrace' = [rqTrace EXCEPT ![w] = Append(@, <<"acquire", 1>>)]
            /\ rqPc' = [rqPc EXCEPT ![w] =
                           IF rqPath[w] = "safe_api_request"
                           THEN "increment" ELSE "request"]
            /\ UNCHANGED <<tbDeficit, tbSlept>>
       ELSE /\ tb' = refill(tb)
            /\ tbDeficit' = [tbDeficit EXCEPT ![w] = Deficit(refill(tb), 1)]
            /\ tbSlept' = [tbSlept EXCEPT ![w] = 0]
            /\ rqPc' = [rqPc EXCEPT ![w] = "sleep"]
            /\ UNCHANGED <<tbLock, rqTrace>>
    /\ UNCHANGED <<rqPath, rqApiLock, rqCbLock, rqApiCalls, rqMax, rqLimitReached,
                   rqOutcome, rqRet, rqStarted, rqIssued, rqOrder>>
    /\ UNCHANGED <<tbRecord, cbVars, trVars, notRequest>>

\* time.sleep() in acquire returns.
RequestWake(w) ==
    /\ rqPc[w] = "sleep"
    /\ SleepOver(tb, tbDeficit[w], tbSlept[w])
    /\ rqPc' = [rqPc EXCEPT ![w] = "refill"]
    /\ tbDeficit' = [tbDeficit EXCEPT ![w] = 0]
    /\ tbSlept' = [tbSlept EXCEPT ![w] = 0]
    /\ UNCHANGED <<rqPath, rqApiLock, rqCbLock, rqApiCalls, rqMax, rqLimitReached,
                   rqOutcome, rqRet, rqTrace, rqStarted, rqIssued, rqOrder>>
    /\ UNCHANGED <<tb, tbLock, tbRecord, cbVars, trVars, notRequest>>

\* `api_calls += 1`, usage_tracker.increment_usage(API_KEY_LABEL, calls=1),
\* and the `with api_lock:` block is left.
RequestIncrement(w) ==
    /\ rqPc[w] = "increment"
    /\ rqApiCalls' = rqApiCalls + 1
    /\ LET label == API_KEY_LABEL
           record == increment_record(trState.api_keys[label], trToday, 1)
       IN  trState' = save_state([trState EXCEPT !.api_keys[label] = record], trToday)
    /\ trFile' = Some(trState')
    /\ rqApiLock' = Left(rqApiLock, w)
    /\ rqTrace' = [rqTrace EXCEPT ![w] = Append(@, <<"increment_usage", 1>>)]
    /\ rqPc' = [rqPc EXCEPT ![w] = "request"]
    /\ UNCHANGED <<rqPath, rqCbLock, rqMax, rqLimitReached, rqOutcome, rqRet,
                   rqStarted, rqIssued, rqOrder>>
    /\ UNCHANGED <<trRecord, cbVars, tbVars, notRequest>>

\* The external request: requests.get(...) answers or raises (in enrich,
\* backoff.execute(self._fetch_contacts, company) returns or raises).
RequestSent(w, outcome) ==
    /\ rqPc[w] = "request"
    /\ rqIssued' = rqIssued + 1
    /\ rqOutcome' = [rqOutcome EXCEPT ![w] = Some(outcome)]
    /\ rqTrace' = [rqTrace EXCEPT ![w] = Append(@, <<"request", outcome>>)]
    /\ rqPc' = [rqPc EXCEPT ![w] = "report"]
    /\ UNCHANGED <<rqPath, rqApiLock, rqCbLock, rqApiCalls, rqMax, rqLimitReached,
                   rqRet, rqStarted, rqOrder>>
    /\ UNCHANGED <<cbVars, tbVars, trVars, notRequest>>

\* record_success() or record_failure() under the lock; then the response is
\* returned, or the error raised again (enrich returns the result).
RequestRecord(w) ==
    /\ rqPc[w] = "record"
    /\ LET report == ReportOf(rqOutcome[w][1])
       IN  /\ cb' = IF report = "record_success"
                    THEN record_success(cb)
                    ELSE record_failure(cb, now)
           /\ rqTrace' = [rqTrace EXCEPT ![w] = Append(@, <<report, now>>)]
    /\ rqCbLock' = Left(rqCbLock, w)
    /\ rqPc' = [rqPc EXCEPT ![w] = "idle"]
    /\ rqRet' = [rqRet EXCEPT ![w] =
                    IF rqOutcome[w][1].kind = "raise" /\ rqPath[w] = "safe_api_request"
                    THEN Some("raised") ELSE Some("returned")]
    /\ UNCHANGED <<rqPath, rqApiLock, rqApiCalls, rqMax, rqLimitReached, rqOutcome,
                   rqStarted, rqIssued, rqOrder>>
    /\ UNCHANGED <<now, cbRecord, tbVars, trVars, notRequest>>

\* One second passes.
RequestTick ==
    /\ now < MaxRunTime
    /\ now' = now + 1
    /\ tb' = [tb EXCEPT !.age = IF @ * tb.refill_rate >= tb.capacity * Grain
                                 THEN @ ELSE @ + 1]
    /\ tbSlept' = [t \in Threads |->
                     IF rqPc[t] = "sleep" /\ ~SleepOver(tb, tbDeficit[t], tbSlept[t])
                     THEN tbSlept[t] + 1 ELSE tbSlept[t]]
    /\ UNCHANGED <<cb, cbRecord, tbLock, tbRecord, tbDeficit, trVars, rqVars, notRequest>>

\* The backoff as BaseEnrichmentConnector.__init__ builds it:
\* ExponentialBackoff(base_delay=2.0, max_delay=30.0, max_attempts=3).
ConnectorBackoff ==
    /\ bo = ExponentialBackoff(2 * JitterTenth, 30 * JitterTenth, 3, TRUE)
    /\ BackoffIdle

\* enrich(): `self.backoff.execute(self._fetch_contacts, company)` is called.
EnrichExecute(w) ==
    /\ rqPath[w] = "enrich"
    /\ rqPc[w] = "request"
    /\ boPc = "idle"
    /\ rqPc' = [rqPc EXCEPT ![w] = "execute"]
    /\ boPc' = "loop"
    /\ boAttempt' = 0
    /\ boLastExc' = None
    /\ UNCHANGED <<bo, boResult, boCalls, boSleeps>>
    /\ UNCHANGED <<rqPath, rqApiLock, rqCbLock, rqApiCalls, rqMax, rqLimitReached,
                   rqOutcome, rqRet, rqTrace, rqStarted, rqIssued, rqOrder>>
    /\ UNCHANGED <<cbVars, tbVars, trVars, hmVars, bpVars, coVars, alVars, jlVars>>

\* One pass of the loop of execute(): _fetch_contacts(company) is invoked and
\* returns, which ends execute(), or raises; the error of the last attempt is
\* raised again, an earlier one starts the sleep.
EnrichFetch(w, outcome) ==
    /\ rqPath[w] = "enrich"
    /\ rqPc[w] = "execute"
    /\ boPc = "loop"
    /\ boAttempt < bo.max_attempts
    /\ rqIssued' = rqIssued + 1
    /\ rqTrace' = [rqTrace EXCEPT ![w] = Append(@, <<"_fetch_contacts", outcome.kind>>)]
    /\ IF outcome.kind = "return"
       THEN /\ boPc' = "returned"
            /\ UNCHANGED boLastExc
       ELSE /\ boLastExc' = Some(outcome.value)
            /\ boPc' = IF IsLastAttempt(bo, boAttempt) THEN "raised" ELSE "sleep"
    /\ UNCHANGED <<bo, boAttempt, boResult, boCalls, boSleeps>>
    /\ UNCHANGED <<rqPath, rqPc, rqApiLock, rqCbLock, rqApiCalls, rqMax,
                   rqLimitReached, rqOutcome, rqRet, rqStarted, rqOrder>>
    /\ UNCHANGED <<cbVars, tbVars, trVars, hmVars, bpVars, coVars, alVars, jlVars>>

\* execute() has returned the contacts or raised: enrich() goes on to
\* record_success() or, in its except branch, to record_failure().
EnrichReturned(w) ==
    /\ rqPath[w] = "enrich"
    /\ rqPc[w] = "execute"
    /\ boPc \in {"returned", "raised"}
    /\ rqOutcome' = [rqOutcome EXCEPT ![w] =
                        IF boPc = "returned"
                        THEN Some([kind |-> "response", status_code |-> 200])
                        ELSE Some([kind |-> "raise", status_code |-> 0])]
    /\ rqPc' = [rqPc EXCEPT ![w] = "report"]
    /\ boPc' = "idle"
    /\ UNCHANGED <<bo, boAttempt, boLastExc, boResult, boCalls, boSleeps>>
    /\ UNCHANGED <<rqPath, rqApiLock, rqCbLock, rqApiCalls, rqMax, rqLimitReached,
                   rqRet, rqTrace, rqStarted, rqIssued, rqOrder>>
    /\ UNCHANGED <<cbVars, tbVars, trVars, hmVars, bpVars, coVars, alVars, jlVars>>

\* enrich() with the retries of its backoff.  (With max_attempts = 3 the loop
\* of execute() always ends in its body, by a return or by the raise of the
\* last attempt.)
EnrichNext ==
    \/ \E w \in Threads :
           \/ RequestCall(w)
           \/ RequestBreakerLock(w)
           \/ RequestAvailable(w)
           \/ RequestLimiterLock(w)
           \/ RequestRefill(w)
           \/ RequestWake(w)
           \/ EnrichExecute(w)
           \/ \E outcome \in Outcomes : EnrichFetch(w, outcome)
           \/ EnrichReturned(w)
           \/ RequestRecord(w)
    \/ SleepDone
    \/ RequestTick

RequestWorker(w) ==
    \/ RequestCall(w)
    \/ RequestBreakerLock(w)
    \/ RequestAvailable(w)
    \/ RequestLimiterLock(w)
    \/ RequestRefill(w)
    \/ RequestWake(w)
    \/ \E outcome \in RequestOutcomes : RequestSent(w, outcome)
    \/ RequestRecord(w)

RequestNext ==
    \/ Startup
    \/ \E w \in Threads :
           \/ RequestWorker(w)
           \/ RequestApiLock(w)
           \/ RequestQuota(w)
           \/ RequestIncrement(w)
    \/ RequestTick

----------------------------------------------------------------------------
(* The job loop of AeroComps.py: the main loop over the companies and
   fetch_jobs_for_company, run by the main thread *)

\* `for attempt in range(3):`
RetryAttempts == 3

\* The thread that runs the job loop.
JobWorker == "w1"

\* Mutant of StopRequested: the loop does not look at the flag.
StopRequested_Never(flag) == FALSE

\* `if api_limit_reached:` in the main loop and in fetch_jobs_for_company
StopRequested(flag) == flag

\* The monitor's ghosts of its own specification, which the job loop does
\* not keep.
hmRecord == <<hmOp, hmArg, hmRet, hmNon2xx, hmRecorded>>

\* What a step of the job loop outside safe_api_request leaves alone.
notJobLoop == <<cbVars, tbVars, boVars, trVars, bpVars, coVars, alVars, rqVars>>

\* The start of the main loop: the layers built, one thread.
RunInit ==
    /\ rqPath = [w \in Threads |-> IF w = JobWorker THEN "safe_api_request" ELSE "none"]
    /\ RunLayers
    /\ HealthInit
    /\ jlPc = "top"
    /\ jlCompany = 0
    /\ jlPage = 0
    /\ jlAttempt = 0
    /\ jlHandled = 0
    /\ jlLocal = 0
    /\ jlResults = 0
    /\ jlReported = None

\* The top of the main loop: the list is exhausted, or the flag is set and the
\* loop breaks, or fetch_jobs_for_company(company) is called.
JobLoopTop ==
    /\ ApiKeySelected
    /\ jlPc = "top"
    /\ IF jlCompany = MaxCompanies \/ StopRequested(rqLimitReached)
       THEN /\ jlPc' = "export"
            /\ UNCHANGED jlCompany
       ELSE /\ jlPc' = "fetch"
            /\ jlCompany' = jlCompany + 1
    /\ UNCHANGED <<jlPage, jlAttempt, jlHandled, jlLocal, jlResults, jlReported>>
    /\ UNCHANGED <<hmVars, notJobLoop>>

\* fetch_jobs_for_company: the early exit when the flag is set, else
\* local_results = [] and the page loop starts.
JobFetchEntry ==
    /\ jlPc = "fetch"
    /\ jlLocal' = 0
    /\ jlPage' = 0
    /\ jlPc' = IF StopRequested(rqLimitReached) THEN "checks" ELSE "page"
    /\ UNCHANGED <<jlCompany, jlAttempt, jlHandled, jlResults, jlReported>>
    /\ UNCHANGED <<hmVars, notJobLoop>>

\* The top of the page loop: the pages are exhausted, or the flag is set and
\* the loop breaks, or the retry loop of the page starts.
JobPage ==
    /\ jlPc = "page"
    /\ jlAttempt' = 0
    /\ jlPc' = IF jlPage >= MaxPages \/ StopRequested(rqLimitReached)
               THEN "fetched" ELSE "attempt"
    /\ UNCHANGED <<jlCompany, jlPage, jlHandled, jlLocal, jlResults, jlReported>>
    /\ UNCHANGED <<hmVars, notJobLoop>>

\* The top of the retry loop: after three failed attempts the page is
\* skipped (`continue`), else safe_api_request(params, company) is called.
JobAttempt ==
    /\ jlPc = "attempt"
    /\ IF jlAttempt >= RetryAttempts
       THEN /\ jlPc' = "page"
            /\ jlPage' = jlPage + 1
       ELSE /\ jlPc' = "call"
            /\ UNCHANGED jlPage
    /\ UNCHANGED <<jlCompany, jlAttempt, jlHandled, jlLocal, jlResults, jlReported>>
    /\ UNCHANGED <<hmVars, notJobLoop>>

\* The call of safe_api_request by the job loop.
JobCall ==
    /\ jlPc = "call"
    /\ rqStarted = jlHandled
    /\ RequestCall(JobWorker)

\* safe_api_request has returned or raised, and the retry loop takes it:
\* None ends fetch_jobs_for_company with what it has; a valid response is
\* processed (`jobs` of its listings are kept) and the page loop goes on or
\* breaks; an invalid one is recorded and, unless it is a 403 or 429, tried
\* again after a sleep; an error is tried again after a sleep.
JobResponse(valid, jobs, more) ==
    /\ jlPc = "call"
    /\ rqStarted = jlHandled + 1
    /\ rqPc[JobWorker] = "idle"
    /\ jlHandled' = jlHandled + 1
    /\ LET ret == rqRet[JobWorker][1]
           status_code == rqOutcome[JobWorker][1].status_code
       IN  IF ret \in {"refused: circuit open", "refused: run limit"}
           THEN /\ hm' = record_call(hm, 0, jlLocal, 0)
                /\ jlPc' = "checks"
                /\ UNCHANGED <<jlPage, jlAttempt, jlLocal>>
           ELSE IF ret = "raised"
           THEN /\ jlPc' = "attempt"
                /\ jlAttempt' = jlAttempt + 1
                /\ UNCHANGED <<hm, jlPage, jlLocal>>
           ELSE IF status_code = 200 /\ valid
           THEN /\ jlLocal' = jlLocal + jobs
                /\ IF more
                   THEN /\ jlPc' = "page"
                        /\ jlPage' = jlPage + 1
                   ELSE /\ jlPc' = "fetched"
                        /\ UNCHANGED jlPage
                /\ UNCHANGED <<hm, jlAttempt>>
           ELSE /\ hm' = record_call(hm, status_code, 0, 0)
                /\ IF status_code \in {403, 429}
                   THEN /\ jlPc' = "checks"
                        /\ UNCHANGED jlAttempt
                   ELSE /\ jlPc' = "attempt"
                        /\ jlAttempt' = jlAttempt + 1
                /\ UNCHANGED <<jlPage, jlLocal>>
    /\ UNCHANGED <<jlCompany, jlResults, jlReported>>
    /\ UNCHANGED <<hmRecord, notJobLoop>>

\* After the page loop: the company is recorded in the health monitor and
\* fetch_jobs_for_company returns local_results.
JobFetchEnd ==
    /\ jlPc = "fetched"
    /\ hm' = record_call(hm, 200, jlLocal, 0)
    /\ jlPc' = "checks"
    /\ UNCHANGED <<jlCompany, jlPage, jlAttempt, jlHandled, jlLocal, jlResults,
                   jlReported>>
    /\ UNCHANGED <<hmRecord, notJobLoop>>

\* Back in the main loop: results.extend(company_results), then the loop
\* breaks on a fallback trigger or goes on to the next company.  (The
\* checkpoint every 25 and the pause every 10 companies are not reached by
\* a list of MaxCompanies.)
JobChecks ==
    /\ jlPc = "checks"
    /\ jlResults' = jlResults + jlLocal
    /\ jlPc' = IF should_trigger_fallback(hm).trigger THEN "export" ELSE "top"
    /\ UNCHANGED <<jlCompany, jlPage, jlAttempt, jlHandled, jlLocal, jlReported>>
    /\ UNCHANGED <<hmVars, notJobLoop>>

\* The final export: the results collected so far are saved and reported.
JobExport ==
    /\ jlPc = "export"
    /\ jlReported' = Some(jlResults)
    /\ jlPc' = "done"
    /\ UNCHANGED <<jlCompany, jlPage, jlAttempt, jlHandled, jlLocal, jlResults>>
    /\ UNCHANGED <<hmVars, notJobLoop>>

\* A step of the main thread.
JobStep ==
    \/ Startup
    \/ JobLoopTop
    \/ JobFetchEntry
    \/ JobPage
    \/ JobAttempt
    \/ JobCall
    \/ RequestBreakerLock(JobWorker)
    \/ RequestAvailable(JobWorker)
    \/ RequestApiLock(JobWorker)
    \/ RequestQuota(JobWorker)
    \/ RequestLimiterLock(JobWorker)
    \/ RequestRefill(JobWorker)
    \/ RequestWake(JobWorker)
    \/ RequestIncrement(JobWorker)
    \/ \E outcome \in RequestOutcomes : RequestSent(JobWorker, outcome)
    \/ RequestRecord(JobWorker)
    \/ \E valid \in BOOLEAN, jobs \in 0..MaxJobs, more \in BOOLEAN :
           JobResponse(valid, jobs, more)
    \/ JobFetchEnd
    \/ JobChecks
    \/ JobExport

RunNext ==
    \/ JobStep
    \/ RequestTick

----------------------------------------------------------------------------
(* Specifications *)

InitBreaker == BreakerInit /\ LimiterParked /\ BackoffParked /\ TrackerParked /\
    HealthParked /\ BatchParked /\ CoordinatorParked /\ AuditParked /\ RequestParked /\
    JobLoopParked

SpecBreaker == InitBreaker /\ [][BreakerNext]_vars

InitLimiter == LimiterInit /\ BreakerParked /\ BackoffParked /\ TrackerParked /\
    HealthParked /\ BatchParked /\ CoordinatorParked /\ AuditParked /\ RequestParked /\
    JobLoopParked

SpecLimiter == InitLimiter /\ [][LimiterNext]_vars

\* Time passes and a thread that can take a step of acquire() takes it.
LimiterFairness ==
    /\ WF_vars(LimiterTick)
    /\ \A t \in Threads :
           WF_vars(AcquireLock(t) \/ AcquireRefill(t) \/ AcquireDeduct(t) \/ AcquireWake(t))

SpecLimiterFair == SpecLimiter /\ LimiterFairness

InitBackoff == BackoffInit /\ BreakerParked /\ LimiterParked /\ TrackerParked /\
    HealthParked /\ BatchParked /\ CoordinatorParked /\ AuditParked /\ RequestParked /\
    JobLoopParked

SpecBackoff == InitBackoff /\ [][BackoffNext]_vars

InitTracker == TrackerInit /\ BreakerParked /\ LimiterParked /\ BackoffParked /\
    HealthParked /\ BatchParked /\ CoordinatorParked /\ AuditParked /\ RequestParked /\
    JobLoopParked

SpecTracker == InitTracker /\ [][TrackerNext]_vars

InitLifecycle == LifecycleInit /\ BreakerParked /\ LimiterParked /\ BackoffParked /\
    HealthParked /\ BatchParked /\ CoordinatorParked /\ AuditParked /\ RequestParked /\
    JobLoopParked

\* The tracker over several runs of the program and several months.
SpecLifecycle == InitLifecycle /\ [][LifecycleNext]_vars

InitRecovery == RecoveryInit /\ BreakerParked /\ LimiterParked /\ BackoffParked /\
    HealthParked /\ BatchParked /\ CoordinatorParked /\ AuditParked /\ RequestParked /\
    JobLoopParked

\* The tracker over several runs, a damaged file and a growing configuration.
SpecRecovery == InitRecovery /\ [][RecoveryNext]_vars

InitHealth ==
    HealthInit /\ BreakerParked /\ LimiterParked /\ BackoffParked /\ TrackerParked /\
    BatchParked /\ CoordinatorParked /\ AuditParked /\ RequestParked /\
    JobLoopParked

SpecHealth == InitHealth /\ [][HealthNext]_vars

InitFallback ==
    FallbackInit /\ BreakerParked /\ LimiterParked /\ BackoffParked /\ TrackerParked /\
    BatchParked /\ CoordinatorParked /\ AuditParked /\ RequestParked /\
    JobLoopParked

\* should_trigger_fallback() on every monitor state of up to MaxProcessed calls.
SpecFallback == InitFallback /\ [][FallbackNext]_vars

InitBatch ==
    BatchInit /\ BreakerParked /\ LimiterParked /\ BackoffParked /\ TrackerParked /\
    HealthParked /\ CoordinatorParked /\ AuditParked /\ RequestParked /\
    JobLoopParked

SpecBatch == InitBatch /\ [][BatchNext]_vars

InitCoordinator ==
    CoordinatorInit /\ BreakerParked /\ LimiterParked /\ BackoffParked /\
    TrackerParked /\ HealthParked /\ BatchParked /\ AuditParked /\ RequestParked /\
    JobLoopParked

SpecCoordinator == InitCoordinator /\ [][CoordinatorNext]_vars

InitAudit ==
    AuditInit /\ BreakerParked /\ LimiterParked /\ BackoffParked /\ TrackerParked /\
    HealthParked /\ BatchParked /\ CoordinatorParked /\ RequestParked /\
    JobLoopParked

SpecAudit == InitAudit /\ [][AuditNext]_vars

InitRequest ==
    (RequestInit \/ EnrichInit) /\ BackoffParked /\ HealthParked /\ BatchParked /\
    CoordinatorParked /\ AuditParked /\ JobLoopParked

InitEnrich ==
    EnrichInit /\ ConnectorBackoff /\ HealthParked /\ BatchParked /\
    CoordinatorParked /\ AuditParked /\ JobLoopParked

\* A run of a connector, with the retries of its backoff: one caller in
\* enrich.
SpecEnrich == InitEnrich /\ [][EnrichNext]_vars

InitRun ==
    RunInit /\ BackoffParked /\ BatchParked /\ CoordinatorParked /\ AuditParked

\* A run of AeroComps.py from startup to the final export: the main thread
\* keeps running, and time passes.
SpecRun == InitRun /\ [][RunNext]_vars /\ WF_vars(JobStep)

\* A run of AeroComps.py: startup, then two workers in safe_api_request; or a
\* run of a connector: one caller in enrich.
SpecRequest == InitRequest /\ [][RequestNext]_vars

----------------------------------------------------------------------------
(* Circuit-breaker properties *)

\* C1: from CLOSED the circuit opens exactly at the failure_threshold-th
\* record_failure() in a row: in CLOSED the failure counter is the number of
\* failures since the last success and stays below the threshold, a success
\* in CLOSED sets it to 0 and keeps the circuit CLOSED, a failure in CLOSED
\* opens the circuit if and only if it is the failure_threshold-th of the
\* streak, nothing else leaves CLOSED, and an is_available() asked right
\* after the opening failure answers false.
C1_OpensAtThreshold ==
    /\ cb.state = "CLOSED" =>
           /\ cb.failure_count = cbStreak
           /\ cbStreak < cb.failure_threshold
    /\ (cbPre.state = "CLOSED" /\ cbOp = "record_success") =>
           /\ cb.state = "CLOSED"
           /\ cb.failure_count = 0
    /\ (cbPre.state = "CLOSED" /\ cbOp = "record_failure") =>
           /\ cb.state \in {"CLOSED", "OPEN"}
           /\ cb.state = "OPEN" <=> cbStreak = cb.failure_threshold
           /\ (cb.state = "OPEN" /\ now = cbPreNow) => ~is_available(cb, now).ret
    /\ (cbPre.state = "CLOSED" /\ cbOp \in {"is_available", "get_state"}) =>
           cb.state = "CLOSED"

\* C1 witness: the third failure in a row has just opened a circuit whose
\* threshold is 3.
C1_Witness ==
    /\ cbOp = "record_failure"
    /\ cbPre.state = "CLOSED"
    /\ cb.state = "OPEN"
    /\ cb.failure_threshold = 3
    /\ cbStreak = 3

\* Seconds between the latest record_failure() and the last call.
SinceFailure == cbPreNow - cbFailAt[1]

\* C2: while OPEN, an is_available() asked less than timeout seconds after
\* the latest recorded failure answers false and leaves the circuit OPEN; one
\* asked more than timeout seconds after it answers true and makes the
\* circuit HALF_OPEN; record_success, record_failure and get_state leave an
\* OPEN circuit OPEN.
C2_OpenUntilTimeout ==
    /\ (cbPre.state = "OPEN" /\ cbOp = "is_available" /\ SinceFailure < cb.timeout) =>
           /\ cbRet = Some(FALSE)
           /\ cb.state = "OPEN"
    /\ (cbPre.state = "OPEN" /\ cbOp = "is_available" /\ SinceFailure > cb.timeout) =>
           /\ cbRet = Some(TRUE)
           /\ cb.state = "HALF_OPEN"
    /\ (cbPre.state = "OPEN" /\ cbOp \in {"record_success", "record_failure", "get_state"}) =>
           cb.state = "OPEN"

\* C2 witness: an OPEN circuit whose latest failure was recorded while it was
\* already OPEN has been found available after the timeout.
C2_Witness ==
    /\ cbOp = "is_available"
    /\ cbPre.state = "OPEN"
    /\ cbPre.failure_count > cbPre.failure_threshold
    /\ SinceFailure > cb.timeout
    /\ cb.state = "HALF_OPEN"

\* C3: in HALF_OPEN a record_failure() opens the circuit whatever the number
\* of successes so far; the half_open_max_calls-th record_success() since
\* HALF_OPEN was entered closes it with the failure counter at 0, an earlier
\* one leaves it HALF_OPEN; is_available (which answers true) and get_state
\* leave it HALF_OPEN.
C3_HalfOpenTransitions ==
    /\ (cbPre.state = "HALF_OPEN" /\ cbOp = "record_failure") =>
           cb.state = "OPEN"
    /\ (cbPre.state = "HALF_OPEN" /\ cbOp = "record_success") =>
           IF cbProbes = cb.half_open_max_calls
           THEN cb.state = "CLOSED" /\ cb.failure_count = 0
           ELSE cb.state = "HALF_OPEN" /\ cbProbes < cb.half_open_max_calls
    /\ (cbPre.state = "HALF_OPEN" /\ cbOp = "is_available") =>
           cb.state = "HALF_OPEN" /\ cbRet = Some(TRUE)
    /\ (cbPre.state = "HALF_OPEN" /\ cbOp = "get_state") =>
           cb.state = "HALF_OPEN"

\* C3 witness: the second success of a probation of two has closed the
\* circuit and cleared a failure counter that was not 0.
C3_Witness ==
    /\ cbOp = "record_success"
    /\ cbPre.state = "HALF_OPEN"
    /\ cbPre.failure_count > 0
    /\ cb.half_open_max_calls = 2
    /\ cbProbes = 2
    /\ cb.state = "CLOSED"

----------------------------------------------------------------------------
(* Token-bucket properties *)

\* C4: in every reachable state of the token bucket, whatever acquire() and
\* get_status() calls were made and however much time passed between them,
\* tokens <= capacity.
C4_TokensWithinCapacity ==
    tb.tokens <= tb.capacity * Grain

\* C4 witness: after an acquire() took tokens, a refill has just brought the
\* bucket back to its capacity.
C4_Witness ==
    /\ tbLast # None
    /\ tbNet = 0
    /\ tb.age = 0
    /\ tb.tokens = tb.capacity * Grain

\* C5: a call acquire(n) returns without having slept exactly when the
\* bucket held at least n tokens at its first check (after the refill);
\* tokens only ever decrease by a call that is past a successful check, which
\* then takes exactly its n tokens from a bucket holding at least n.
C5_AcquireDeductsExactly ==
    /\ [](tbLast # None =>
              (tbLast[1].found >= tbLast[1].need * Grain <=> ~tbLast[1].napped))
    /\ [][tb'.tokens < tb.tokens =>
              \E t \in Threads :
                  /\ tbPc[t] = "deduct"
                  /\ tbPc'[t] = "idle"
                  /\ tb.tokens >= tbNeed[t] * Grain
                  /\ tb'.tokens = tb.tokens - tbNeed[t] * Grain]_vars

\* C5 witness: with a capacity of 2, the third acquire(1) in a row found the
\* bucket empty, slept and returned.
C5_Witness ==
    /\ tb.capacity = 2
    /\ tbCalls = 3
    /\ tbLast = Some([need |-> 1, found |-> 0, napped |-> TRUE])
    /\ \A t \in Threads : tbPc[t] = "idle"

\* C6: under every interleaving of the threads' acquire() calls, a thread
\* between its refill and its return holds the lock, the test it passed still
\* holds when it deducts, tokens is never negative, and the tokens deducted
\* so far never exceed the initial tokens plus the tokens refilled so far.
C6_NoOverWithdrawal ==
    /\ \A t \in Threads : tbPc[t] \in {"refill", "deduct", "sleep"} => tbLock = t
    /\ \A t \in Threads : tbPc[t] = "deduct" => tb.tokens >= tbNeed[t] * Grain
    /\ tb.tokens >= 0
    /\ 0 - tbNet <= tb.capacity * Grain
    /\ tb.tokens = tb.capacity * Grain + tbNet

\* C6 witness: w1 has returned with tokens that would have covered the call
\* of w2 as well, but not both; w2, which asked meanwhile, found too few and
\* sleeps.
C6_Witness ==
    /\ tbPc["w1"] = "idle"
    /\ tbPc["w2"] = "sleep"
    /\ tbLast # None
    /\ tbFound["w2"] # None
    /\ tbLast[1].found >= tbNeed["w2"] * Grain
    /\ tbLast[1].found < (tbLast[1].need + tbNeed["w2"]) * Grain
    /\ tbFound["w2"][1] < tbNeed["w2"] * Grain

\* C7: every acquire(n) call eventually returns, whatever n is, when the
\* refill rate is positive and time keeps advancing.
C7_EveryAcquireReturns ==
    \A t \in Threads : (tbPc[t] # "idle") ~> (tbPc[t] = "idle")

----------------------------------------------------------------------------
(* Backoff properties *)

Raised(k) == boCalls[k].kind = "raise"

\* C8: execute() invokes func at most max_attempts times, one invocation
\* after the other; it ends at the first invocation that returns, with that
\* invocation's value; when every invocation raised it ends after exactly
\* max_attempts invocations by raising the error of the last one, and it has
\* slept only between invocations, not after the last.
C8_AttemptsAndReraise ==
    /\ Len(boCalls) <= bo.max_attempts
    /\ \A k \in 1..(Len(boCalls) - 1) : Raised(k)
    /\ boPc = "loop" => Len(boCalls) = boAttempt /\ Len(boSleeps) = boAttempt
    /\ boPc = "sleep" => Len(boCalls) = boAttempt + 1 /\ Len(boSleeps) = boAttempt + 1
    /\ boPc = "returned" =>
           /\ ~Raised(Len(boCalls))
           /\ boResult = Some(boCalls[Len(boCalls)])
           /\ Len(boSleeps) = Len(boCalls) - 1
    /\ boPc = "raised" =>
           /\ Len(boCalls) = bo.max_attempts
           /\ Len(boCalls) >= 1 =>
                  /\ Raised(Len(boCalls))
                  /\ boResult = Some(boCalls[Len(boCalls)])
                  /\ Len(boSleeps) = Len(boCalls) - 1
    /\ (boPc \in {"returned", "raised"} /\ Len(boCalls) >= 1 /\ Raised(Len(boCalls))) =>
           boPc = "raised"

\* C8 witness: with max_attempts = 3, func raised e1, e1 and then e2, and
\* execute() raised e2 after two sleeps.
C8_Witness ==
    /\ bo.max_attempts = 3
    /\ boPc = "raised"
    /\ Len(boCalls) = 3
    /\ boCalls[1].value = "e1"
    /\ boCalls[3].value = "e2"
    /\ boResult = Some([kind |-> "raise", value |-> "e2"])
    /\ Len(boSleeps) = 2

\* C9: the k-th sleep of execute() (after failed attempt k - 1) lasts d + j
\* with d = min(base_delay * 2^(k-1), max_delay) and 0 <= j <= 0.1 * d, j = 0
\* when jitter is off; so every sleep is at most 1.1 * max_delay and the
\* delays before jitter never decrease from one sleep to the next.
C9_DelayFormula ==
    \A k \in 1..Len(boSleeps) :
        LET d == boSleeps[k].delay
            j == boSleeps[k].slept - d
        IN  /\ d = IF bo.base_delay * (2 ^ (k - 1)) <= bo.max_delay
                   THEN bo.base_delay * (2 ^ (k - 1))
                   ELSE bo.max_delay
            /\ 0 <= j
            /\ JitterTenth * j <= d
            /\ ~bo.jitter => j = 0
            /\ JitterTenth * boSleeps[k].slept <= (JitterTenth + 1) * bo.max_delay
            /\ k > 1 => boSleeps[k - 1].delay <= d

\* C9 witness: with jitter on, a first sleep below max_delay and a second one
\* capped at max_delay, slept with the largest jitter.
C9_Witness ==
    /\ bo.jitter
    /\ Len(boSleeps) = 2
    /\ boSleeps[1].delay < bo.max_delay
    /\ boSleeps[2].delay = bo.max_delay
    /\ bo.base_delay * 2 > bo.max_delay
    /\ JitterTenth * (boSleeps[2].slept - boSleeps[2].delay) = boSleeps[2].delay

----------------------------------------------------------------------------
(* Usage-tracker properties *)

\* monthly_limit - total_calls_used of a configured key.
Remaining(key_info) ==
    key_info.monthly_limit - trState.api_keys[key_info.label].total_calls_used

ConfiguredKeys == { trConfig[i] : i \in 1..Len(trConfig) }

\* C10: get_available_key() returns a configured key whose remaining quota
\* is > 0 and whose priority number is the lowest among the keys with quota
\* left, together with that key's remaining quota; it returns (None, 0)
\* exactly when every configured key has remaining <= 0.
C10_LowestPriorityAvailable ==
    (trOp = "get_available_key" /\ trAlive) =>
        LET available == { k \in ConfiguredKeys : Remaining(k) > 0 }
            ret == trRet[1]
        IN  /\ ret.key_info = None <=> available = {}
            /\ ret.key_info = None => ret.remaining = 0
            /\ ret.key_info # None =>
                   /\ ret.key_info[1] \in available
                   /\ ret.remaining = Remaining(ret.key_info[1])
                   /\ \A k \in available : ret.key_info[1].priority <= k.priority

\* C10 witness: A, of higher priority, is used up; the call went through the
\* switch from A and returned B with what is left of B.
C10_Witness ==
    /\ trOp = "get_available_key"
    /\ trAlive
    /\ trConfig[1].priority < trConfig[2].priority
    /\ Remaining(trConfig[1]) <= 0
    /\ trWaited
    /\ trRet = Some([key_info |-> Some(trConfig[2]), remaining |-> Remaining(trConfig[2])])

----------------------------------------------------------------------------
(* Usage-tracker properties over several runs *)

\* Dates are <<month, day>>.
DateBefore(d1, d2) == d1[1] < d2[1] \/ (d1[1] = d2[1] /\ d1[2] < d2[2])

\* The last billing-cycle boundary on or before today, for a cycle that
\* starts on day billing_day of each month.
CycleStart(today, billing_day) ==
    IF today.day >= billing_day
    THEN <<today.month, billing_day>>
    ELSE <<today.month - 1, billing_day>>

\* A tracker has just been constructed from a state file that json.load read.
JustLoaded == trOp = "__init__" /\ trFile # None /\ Decodes(trFile[1])

\* C11: a load resets a key's total (and daily usage) exactly when it is the
\* first load on or after a billing-cycle boundary, that is when the tracker
\* that wrote the file was constructed before the last boundary; any other
\* load leaves the key's record as stored.
C11_ResetOncePerCycle ==
    JustLoaded =>
        \A l \in DOMAIN trFile[1].api_keys :
            LET stored == trFile[1].api_keys[l]
                loaded == trState.api_keys[l]
                boundary == CycleStart(trToday, stored.billing_cycle_day)
            IN  IF DateBefore(trLoaded.saved[1], boundary)
                THEN loaded.total_calls_used = 0 /\ loaded.daily_usage = << >>
                ELSE loaded = stored

\* C12: a load that finds a record of an earlier month on or after the
\* record's billing day sets total_calls_used to 0, empties daily_usage and
\* sets current_month to the month of the load; the reset check applied again
\* to the loaded state on the same date changes nothing, and a load that finds
\* a record of the current month (one reset and used since) leaves it as stored.
C12_ResetIdempotent ==
    JustLoaded =>
        /\ check_monthly_resets(trState, trToday) = trState
        /\ \A l \in DOMAIN trFile[1].api_keys :
               LET stored == trFile[1].api_keys[l]
                   loaded == trState.api_keys[l]
               IN  /\ (/\ stored.current_month[1] < trToday.month
                       /\ trToday.day >= stored.billing_cycle_day)
                          => /\ loaded.total_calls_used = 0
                             /\ loaded.daily_usage = << >>
                             /\ loaded.current_month = MonthOf(trToday)
                   /\ stored.current_month = MonthOf(trToday) => loaded = stored

\* C12 witness: in month 2 a key was reset by a load, used after it, and
\* loaded again on the same day with that usage kept.
C12_Witness ==
    /\ JustLoaded
    /\ trToday.month = 2
    /\ \E l \in DOMAIN trFile[1].api_keys :
           /\ trFile[1].api_keys[l].last_reset = DateOf(trToday)
           /\ trFile[1].api_keys[l].current_month = MonthOf(trToday)
           /\ trFile[1].api_keys[l].total_calls_used > 0
           /\ trState.api_keys[l] = trFile[1].api_keys[l]

\* daily.get(date, 0)
DailyEntry(daily, date) == IF date \in DOMAIN daily THEN daily[date] ELSE 0

\* C13: increment_usage(key, c), c >= 1, adds exactly c to the key's
\* total_calls_used and to its daily_usage entry of the current date, leaves
\* the key's other daily entries and every other key's record unchanged;
\* and while no monthly reset happens no total and no daily entry ever
\* decreases or disappears.
C13_IncrementExact ==
    /\ [][trIncs' = trIncs + 1 =>
            LET key == trArg'[1].key_label
                c == trArg'[1].calls
                date == DateOf(trToday)
                before == trState.api_keys
                after == trState'.api_keys
            IN  /\ c >= 1
                /\ DOMAIN after = DOMAIN before
                /\ after[key].total_calls_used = before[key].total_calls_used + c
                /\ DailyEntry(after[key].daily_usage, date)
                       = DailyEntry(before[key].daily_usage, date) + c
                /\ DOMAIN after[key].daily_usage
                       = DOMAIN before[key].daily_usage \cup {date}
                /\ \A d \in DOMAIN before[key].daily_usage \ {date} :
                       after[key].daily_usage[d] = before[key].daily_usage[d]
                /\ \A l \in DOMAIN before \ {key} : after[l] = before[l]]_vars
    /\ [][\A l \in DOMAIN trState.api_keys :
            /\ l \in DOMAIN trState'.api_keys
            /\ trState'.api_keys[l].total_calls_used
                   >= trState.api_keys[l].total_calls_used
            /\ \A d \in DOMAIN trState.api_keys[l].daily_usage :
                   /\ d \in DOMAIN trState'.api_keys[l].daily_usage
                   /\ trState'.api_keys[l].daily_usage[d]
                          >= trState.api_keys[l].daily_usage[d]]_vars

\* C13 witness: increment_usage("A", 2) has just returned on the second day,
\* after a call for A on the first day and one for B; A's total is the sum of
\* its two daily entries and B's record still holds its own call.
C13_Witness ==
    /\ trOp = "increment_usage"
    /\ trArg = Some([key_label |-> "A", calls |-> 2])
    /\ trToday.day = 2
    /\ DOMAIN trState.api_keys["A"].daily_usage = {<<1, 1>>, <<1, 2>>}
    /\ trState.api_keys["A"].daily_usage[<<1, 2>>] = 2
    /\ trState.api_keys["A"].total_calls_used
           = 2 + trState.api_keys["A"].daily_usage[<<1, 1>>]
    /\ trState.api_keys["B"].total_calls_used > 0

\* C14: when increment_usage has returned the state file holds the whole
\* in-memory state; and a tracker constructed from a file reports, for every
\* key whose billing-cycle boundary was not crossed between the writing of
\* the file and the construction, the stored total_calls_used and daily_usage.
C14_FileRoundTrip ==
    /\ trOp = "increment_usage" => trFile = Some(trState)
    /\ JustLoaded =>
           \A l \in DOMAIN trFile[1].api_keys :
               LET stored == trFile[1].api_keys[l]
                   loaded == trState.api_keys[l]
                   written == trFile[1].metadata.last_updated
                   boundary == CycleStart(trToday, stored.billing_cycle_day)
               IN  ~DateBefore(written, boundary) =>
                       /\ loaded.total_calls_used = stored.total_calls_used
                       /\ loaded.daily_usage = stored.daily_usage

----------------------------------------------------------------------------
(* Usage-tracker properties over runs with a damaged file or a new key *)

\* C15: a get_available_key() call that returns a key went through the
\* 60-second warning exactly when a key was active before and the returned
\* key is another one; afterwards the returned key is the active key in
\* memory and in the saved metadata.  A call that returns no key does not
\* wait.  A call interrupted during the warning ends the process with
\* SystemExit, returns nothing and changes neither the active key nor the file.
C15_SwitchWarning ==
    [][trOp' = "get_available_key" =>
          /\ (trAlive' /\ trRet'[1].key_info # None) =>
                 LET label == trRet'[1].key_info[1].label
                 IN  /\ trWaited' <=> (trCurrent # None /\ trCurrent # Some(label))
                     /\ trCurrent' = Some(label)
                     /\ trState'.metadata.current_key = Some(label)
                     /\ trFile' # None
                     /\ trFile'[1].metadata.current_key = Some(label)
          /\ (trAlive' /\ trRet'[1].key_info = None) => ~trWaited'
          /\ trRaised' = Some("SystemExit") =>
                 /\ trWaited'
                 /\ ~trAlive'
                 /\ trCurrent # None
                 /\ UNCHANGED <<trRet, trCurrent, trState, trFile>>
          /\ trWaited' => trCurrent # None]_vars

\* C15 witness: in a later run, with key A used up and active, the call
\* selected B, waited, and returned B, which is now the active key in memory
\* and on disk.
C15_Witness ==
    /\ trOp = "get_available_key"
    /\ trLoaded.this = <<1, 2>>
    /\ trAlive
    /\ trWaited
    /\ trRet[1].key_info # None
    /\ trRet[1].key_info[1].label = "B"
    /\ trCurrent = Some("B")
    /\ trFile # None
    /\ trFile[1].metadata.current_key = Some("B")
    /\ trState.api_keys["A"].total_calls_used >= trConfig[1].monthly_limit

\* C16: a tracker constructed on a state file with damaged content is alive
\* (no error reached the caller) and holds the state of a tracker constructed
\* without a state file: a record with total 0 and no daily usage for each
\* configured key, and no active key.
C16_CorruptedAsAbsent ==
    (trOp = "__init__" /\ trFile # None /\ ~Decodes(trFile[1])) =>
        /\ trAlive
        /\ trRaised = None
        /\ trState = load_state(None, trConfig, trToday)
        /\ trCurrent = None
        /\ \A i \in 1..Len(trConfig) :
               /\ trConfig[i].label \in DOMAIN trState.api_keys
               /\ trState.api_keys[trConfig[i].label].total_calls_used = 0
               /\ trState.api_keys[trConfig[i].label].daily_usage = << >>

\* C17: increment_usage(label, c) for a configured label without a record in
\* the state creates the record and leaves it with total_calls_used = c and
\* c calls on the current date, raising nothing; and get_available_key() never
\* ends in a KeyError.
C17_UnseenKeys ==
    /\ [][(trIncs' = trIncs + 1
              /\ trArg'[1].key_label \notin DOMAIN trState.api_keys) =>
             LET record == trState'.api_keys[trArg'[1].key_label]
             IN  /\ record.total_calls_used = trArg'[1].calls
                 /\ record.daily_usage = DailyAdd(<< >>, DateOf(trToday), trArg'[1].calls)
                 /\ trAlive'
                 /\ trRaised' = None]_vars
    /\ [](trOp = "get_available_key" => trRaised # Some("KeyError"))

----------------------------------------------------------------------------
(* Health-monitor properties *)

\* C18: should_trigger_fallback() returns true exactly when
\* rate_limit_errors >= 2, or consecutive_failures >= 5, or
\* companies_processed >= 10 with companies_with_jobs / companies_processed
\* < 0.15; the reason it returns names one of these that holds, and is None
\* when it returns false; the call leaves the monitor as it was.
C18_FallbackTrigger ==
    /\ [](hmOp = "should_trigger_fallback" =>
            LET rate == hm.rate_limit_errors >= 2
                consecutive == hm.consecutive_failures >= 5
                low == /\ hm.companies_processed >= 10
                       /\ 100 * hm.companies_with_jobs < 15 * hm.companies_processed
                ret == hmRet[1]
            IN  /\ ret.trigger <=> (rate \/ consecutive \/ low)
                /\ ret.trigger =>
                       \/ ret.reason = Some("rate_limit_errors") /\ rate
                       \/ ret.reason = Some("consecutive_failures") /\ consecutive
                       \/ ret.reason = Some("low_success_rate") /\ low
                /\ ~ret.trigger => ret.reason = None)
    /\ [][hmOp' = "should_trigger_fallback" => hm' = hm]_vars

\* C18 witness: after 10 calls of which one found jobs (10%, not below the
\* alert floor but below 15%), with one rate-limit error and four consecutive
\* failures, the call returned true for the low success rate alone.
C18_Witness ==
    /\ hmOp = "should_trigger_fallback"
    /\ hmRet = Some([trigger |-> TRUE, reason |-> Some("low_success_rate")])
    /\ hm.companies_processed = 10
    /\ hm.companies_with_jobs = 1
    /\ hm.rate_limit_errors = 1
    /\ hm.consecutive_failures = 4

\* C19: consecutive_failures is the number of calls with a status outside
\* 200..299 recorded since the last call with a status inside 200..299.
C19_ConsecutiveFailures == hm.consecutive_failures = hmNon2xx

\* C20: total_calls = successful_calls + failed_calls = companies_processed
\* = the number of record_call() calls; a recorded status adds one to
\* rate_limit_errors exactly when it is 403 or 429, to auth_errors exactly
\* when it is 401 or 402, to server_errors exactly when it is >= 500, to at
\* most one of the three and to none when the call counted as successful, so
\* their sum is at most failed_calls; companies_with_jobs <=
\* companies_processed; and no counter ever decreases.
C20_CountersConsistent ==
    /\ [](/\ hm.total_calls = hm.successful_calls + hm.failed_calls
          /\ hm.total_calls = hm.companies_processed
          /\ hm.total_calls = hmRecorded
          /\ hm.rate_limit_errors + hm.auth_errors + hm.server_errors <= hm.failed_calls
          /\ hm.companies_with_jobs <= hm.companies_processed)
    /\ [][hmRecorded' = hmRecorded + 1 =>
            LET status == hmArg'[1].status_code
                rate == hm'.rate_limit_errors - hm.rate_limit_errors
                auth == hm'.auth_errors - hm.auth_errors
                server == hm'.server_errors - hm.server_errors
            IN  /\ rate = (IF status \in {403, 429} THEN 1 ELSE 0)
                /\ auth = (IF status \in {401, 402} THEN 1 ELSE 0)
                /\ server = (IF status >= 500 THEN 1 ELSE 0)
                /\ rate + auth + server <= 1
                /\ hm'.successful_calls = hm.successful_calls + 1
                       => rate + auth + server = 0]_vars
    /\ [][/\ hm'.total_calls >= hm.total_calls
          /\ hm'.successful_calls >= hm.successful_calls
          /\ hm'.failed_calls >= hm.failed_calls
          /\ hm'.rate_limit_errors >= hm.rate_limit_errors
          /\ hm'.auth_errors >= hm.auth_errors
          /\ hm'.server_errors >= hm.server_errors
          /\ hm'.companies_processed >= hm.companies_processed
          /\ hm'.companies_with_jobs >= hm.companies_with_jobs
          /\ hm'.total_jobs_found >= hm.total_jobs_found]_vars

\* C20 witness: five calls recorded, one successful, one of each error
\* category and one failure of no category, the last one a 503 with a job.
C20_Witness ==
    /\ hmOp = "record_call"
    /\ hmArg = Some([status_code |-> 503, jobs_found |-> 1])
    /\ hm.total_calls = 5
    /\ hm.successful_calls = 1
    /\ hm.failed_calls = 4
    /\ hm.rate_limit_errors = 1
    /\ hm.auth_errors = 1
    /\ hm.server_errors = 1
    /\ hm.companies_with_jobs = 1

----------------------------------------------------------------------------
(* Batch-processor properties *)

\* The smallest number of groups of d that hold n items.
Ceil(n, d) == CHOOSE q \in 0..n : q * d >= n /\ (q = 0 \/ (q - 1) * d < n)

\* The items process_func was called with, in the order of the calls.
CalledWith(trace) ==
    LET calls == SelectSeq(trace, LAMBDA e : e[1] = "process_func")
    IN  [k \in 1..Len(calls) |-> calls[k][2]]

\* The number of process_func calls made before each pause, in order.
PausedAfter(trace) ==
    LET at == SelectSeq([j \in 1..Len(trace) |-> <<trace[j][1], j>>],
                        LAMBDA e : e[1] = "pause")
    IN  [k \in 1..Len(at) |-> Len(CalledWith(SubSeq(trace, 1, at[k][2])))]

\* C21: process_in_batches(items, fn) calls fn on the items one at a time in
\* input order, each once; the k-th pause comes after exactly k full groups
\* and before at least one more item, so never after the last group; when the
\* call returns every item has been given to fn once, the results are those
\* of the items in input order, there were ceil(len/batch_size) - 1 pauses (0
\* for an empty list) and batches_processed has grown by the number of groups.
C21_BatchesInOrder ==
    LET n == Len(bpItems)
        called == CalledWith(bpTrace)
        paused == PausedAfter(bpTrace)
        groups == Ceil(n, bp.batch_size)
    IN  /\ Len(called) <= n
        /\ called = SubSeq(bpItems, 1, Len(called))
        /\ \A k \in 1..Len(paused) :
               paused[k] = k * bp.batch_size /\ paused[k] < n
        /\ bpPc = "pause" => bpTrace[Len(bpTrace)][1] = "pause"
        /\ bpPc = "returned" =>
               /\ called = bpItems
               /\ bpResults = [k \in 1..n |-> ResultOf(bpItems[k])]
               /\ Len(paused) = (IF n = 0 THEN 0 ELSE groups - 1)
               /\ bp.batches_processed = bpBefore + groups

\* C21 witness: five items in batches of two have been processed, with a pause
\* after the second and after the fourth item and none after the fifth.
C21_Witness ==
    /\ bpPc = "returned"
    /\ bp.batch_size = 2
    /\ Len(bpItems) = 5
    /\ PausedAfter(bpTrace) = <<2, 4>>
    /\ bp.batches_processed = bpBefore + 3
    /\ bpBefore > 0

\* min(min_pause * (1 + 0.1 * batches_processed), max_pause), in thousandths
\* of a second.
FatiguedBase(min_pause, max_pause, batches_processed) ==
    LET grown == min_pause * (1000 + 100 * batches_processed)
    IN  IF grown < 1000 * max_pause THEN grown ELSE 1000 * max_pause

\* C22: calculate_pause() returns base + jitter, where base is
\* min(min_pause * (1 + 0.1 * batches_processed), max_pause) and the jitter is
\* between 15% and 30% of the base; the base never shrinks as
\* batches_processed grows and stays at max_pause once it is there; the call
\* leaves batches_processed as it was.
C22_PauseFormula ==
    /\ [](bpPause # None =>
            LET r == bpPause[1]
            IN  /\ r.pause = r.base + r.jitter
                /\ 15 * r.base <= 100 * r.jitter
                /\ 100 * r.jitter <= 30 * r.base)
    /\ [](bpPc = "pause" =>
            bpPause[1].base = FatiguedBase(bp.min_pause, bp.max_pause,
                                           bp.batches_processed))
    /\ [](\A b \in 0..MaxBatches :
            LET this == 100 * base_pause([bp EXCEPT !.batches_processed = b])
                next == 100 * base_pause([bp EXCEPT !.batches_processed = b + 1])
            IN  /\ this <= next
                /\ this = 1000 * bp.max_pause => next = 1000 * bp.max_pause)
    /\ [][bpOp' = "calculate_pause" =>
            /\ bp' = bp
            /\ bpPause'[1].base = FatiguedBase(bp.min_pause, bp.max_pause,
                                               bp.batches_processed)]_vars

\* C22 witness: with min_pause 2 and max_pause 3, after six batches the call
\* returned the capped base of 3 seconds plus a jitter of 30%.
C22_Witness ==
    /\ bpOp = "calculate_pause"
    /\ bp.min_pause = 2
    /\ bp.max_pause = 3
    /\ bp.batches_processed = 6
    /\ bpPause = Some([base |-> 3000, jitter |-> 900, pause |-> 3900])

\* C23: every duration calculate_pause() returns lies between min_pause and
\* max_pause, whatever batches_processed is.
C23_PauseWithinLimits ==
    bpPause # None =>
        /\ 1000 * bp.min_pause <= bpPause[1].pause
        /\ bpPause[1].pause <= 1000 * bp.max_pause

----------------------------------------------------------------------------
(* Coordinator properties *)

\* The configuration has no API key, or an interval below 2.0 seconds.
HardViolation(config) ==
    \/ config.api_keys \in {None, Some(<< >>)}
    \/ /\ config.settings # None
       /\ config.settings[1].min_interval_seconds # None
       /\ config.settings[1].min_interval_seconds[1] < 20

\* The configuration has keys and an interval of 2.0 seconds or more.
SoftAtMost(config) ==
    /\ config.api_keys \in {Some(<<"A">>), Some(<<"A", "B">>)}
    /\ config.settings # None
    /\ config.settings[1].min_interval_seconds # None
    /\ config.settings[1].min_interval_seconds[1] >= 20

\* C24: with a hard violation in the configuration (an interval below 2.0
\* seconds, or no API keys) the constructor raises and no protection
\* component is constructed at any point; a configuration with soft
\* violations at most never raises, and when its constructor is done all six
\* components have been constructed.
C24_HardRaisesSoftBuilds ==
    /\ HardViolation(coConfig) =>
           /\ coBuilt = << >>
           /\ coPc \in {"start", "raised"}
           /\ coPc = "raised" => coRaised # None
    /\ coPc = "raised" => coBuilt = << >>
    /\ SoftAtMost(coConfig) =>
           /\ coPc # "raised"
           /\ coRaised = None
           /\ coPc = "done" =>
                  [k \in 1..Len(coBuilt) |-> coBuilt[k].layer] = Layers

\* C24 witness: an interval of 2.5 seconds and four threads, three soft
\* violations, and all six components constructed.
C24_Witness ==
    /\ coPc = "done"
    /\ coConfig.settings[1].min_interval_seconds = Some(25)
    /\ coConfig.settings[1].max_threads = Some(4)
    /\ Cardinality(coChecked[1].warnings) = 3
    /\ Len(coBuilt) = 6

\* C24, the raising side reached: an interval of 1.9 seconds with keys
\* configured has raised ValueError.
C24_Raised ==
    /\ coPc = "raised"
    /\ coRaised = Some("ValueError")
    /\ coConfig.api_keys = Some(<<"A">>)
    /\ coConfig.settings[1].min_interval_seconds = Some(19)

----------------------------------------------------------------------------
(* Limiter snapshot *)

\* C28: get_status() leaves the stored state of the bucket, its tokens and the
\* time of its last refill, as it was, whenever it is called.
C28_StatusLeavesBucket ==
    [][(\E t \in Threads : GetStatus(t)) => tb' = tb]_vars

----------------------------------------------------------------------------
(* Audit-log properties *)

\* One sequence is the other with records added at its end.
Extends(after, before) ==
    /\ Len(after) >= Len(before)
    /\ SubSeq(after, 1, Len(before)) = before

\* The event types of log_event calls made through each method.
EventTypesOf(method) ==
    CASE method = "log_api_call" -> {"api_call"}
      [] method = "log_rate_limit" -> {"rate_limit_detected"}
      [] method = "log_circuit_breaker" -> {"circuit_breaker_state_change"}
      [] method = "log_error" -> {"error"}
      [] method = "__init__" -> {"audit_logger_initialized"}
      [] OTHER -> {"audit_logger_initialized", "custom"}

\* C27: every log_event call, made directly or through log_api_call,
\* log_rate_limit, log_error or log_circuit_breaker, adds exactly one record to
\* the end of the log, carrying the time of the call and the event type of the
\* call; no step changes, reorders or removes a record already written, so
\* every log is at all times an extension of what it was.
C27_AppendOnly ==
    /\ [][\A f \in LogFiles : Extends(alFiles'[f], alFiles[f])]_vars
    /\ [][alCalls' # alCalls =>
            /\ alCalls' = alCalls + 1
            /\ \E f \in LogFiles :
                   /\ Len(alFiles'[f]) = Len(alFiles[f]) + 1
                   /\ alFiles'[f][Len(alFiles'[f])].timestamp = alNow
                   /\ alFiles'[f][Len(alFiles'[f])].event_type
                          \in EventTypesOf(alOp'[1].method)
                   /\ \A g \in LogFiles \ {f} : alFiles'[g] = alFiles[g]]_vars
    /\ [][alCalls' = alCalls => alFiles' = alFiles]_vars

\* C27 witness: a log that held a record of an earlier run holds it still,
\* followed by the initialization record and two later records, the last one
\* written through log_rate_limit at a later time.
C27_Witness ==
    /\ alOp = Some([method |-> "log_rate_limit", self |-> "log/api_audit.jsonl"])
    /\ alLoggers = {"log/api_audit.jsonl"}
    /\ Len(alFiles["log/api_audit.jsonl"]) = 4
    /\ alFiles["log/api_audit.jsonl"][1] = OldRecord
    /\ alFiles["log/api_audit.jsonl"][2].event_type = "audit_logger_initialized"
    /\ alFiles["log/api_audit.jsonl"][4].event_type = "rate_limit_detected"
    /\ alFiles["log/api_audit.jsonl"][4].timestamp = 1
    /\ alFiles["log/api_audit.jsonl"][2].timestamp = 0

----------------------------------------------------------------------------
(* Call-path properties *)

\* The circuit is OPEN and less than its timeout has passed since the last failure.
StillOpen ==
    /\ cb.state = "OPEN"
    /\ cb.last_failure_time # None
    /\ now - cb.last_failure_time[1] < cb.timeout

\* Every configured key has used up its monthly limit.
AllExhausted ==
    \A i \in 1..Len(trConfig) :
        /\ trConfig[i].label \in DOMAIN trState.api_keys
        /\ trState.api_keys[trConfig[i].label].total_calls_used
               >= trConfig[i].monthly_limit

\* What a call has done, by name.
Did(trace) == { trace[k][1] : k \in 1..Len(trace) }

\* C25: an admission denial is a return value and has no side effect on
\* pacing or quota.  A call of safe_api_request or enrich that finds the
\* circuit OPEN within its timeout returns a refusal in that very step, does
\* not raise, takes no limiter token, adds nothing to the usage counters and
\* issues no request; get_available_key() called with every key exhausted
\* returns the null result and does not raise.
C25_DenialIsAReturn ==
    /\ [][\A w \in Threads :
            rqPc[w] = "available" /\ rqPc'[w] # "available" /\ StillOpen =>
                /\ rqPc'[w] = "idle"
                /\ rqRet'[w] = Some("refused: circuit open")
                /\ tb' = tb
                /\ tbLock' = tbLock
                /\ trState' = trState
                /\ trFile' = trFile
                /\ rqApiCalls' = rqApiCalls
                /\ rqIssued' = rqIssued]_vars
    /\ [](\A w \in Threads :
            rqRet[w] = Some("refused: circuit open") =>
                Did(rqTrace[w]) = {"is_available"})
    /\ [][trOp = "__init__" /\ trOp' = "get_available_key" /\ AllExhausted =>
            /\ trRet' = Some([key_info |-> None, remaining |-> 0])
            /\ trRaised' = None
            /\ trAlive'
            /\ trState' = trState]_vars

\* C25 witness: a worker was refused by the open circuit after another call
\* had taken a token and been counted.
C25_Witness ==
    /\ rqPath["w1"] = "safe_api_request"
    /\ rqRet["w1"] = Some("refused: circuit open")
    /\ rqLimitReached
    /\ StillOpen
    /\ rqApiCalls = 1
    /\ rqIssued = 1

\* C25, reached in a connector: enrich was refused by the open circuit.
C25_EnrichRefused ==
    /\ rqPath["w1"] = "enrich"
    /\ rqRet["w1"] = Some("refused: circuit open")
    /\ StillOpen

\* C25, reached at startup: every key was exhausted and get_available_key()
\* returned no key.
C25_NoKey ==
    /\ trOp = "get_available_key"
    /\ AllExhausted
    /\ trRet = Some([key_info |-> None, remaining |-> 0])

\* The locks of the call path.
PathLocks == {"api_lock", "rate_limiter.lock", "circuit_breaker.lock"}

\* `b` was taken, directly or through other locks, while `a` was held.
TakenUnder(a, b) ==
    \/ <<a, b>> \in rqOrder
    \/ \E c \in PathLocks : <<a, c>> \in rqOrder /\ <<c, b>> \in rqOrder
    \/ \E c, d \in PathLocks :
           <<a, c>> \in rqOrder /\ <<c, d>> \in rqOrder /\ <<d, b>> \in rqOrder

\* The worker that holds the lock worker w is waiting for, if any.
BlockedBy(w) ==
    IF rqPc[w] \in {"is_available", "report"} /\ rqCbLock # "free" THEN {rqCbLock}
    ELSE IF rqPc[w] = "api_lock" /\ rqApiLock # "free" THEN {rqApiLock}
    ELSE IF rqPc[w] = "acquire" /\ tbLock # "free" THEN {tbLock}
    ELSE {}

\* C26: no worker ever holds the circuit-breaker lock and the limiter lock
\* together; the locks of the call path are never taken in a cyclic order;
\* and no set of workers ever waits for locks held within the set.
C26_NoNestedLocks ==
    /\ \A w \in Threads : ~(rqCbLock = w /\ tbLock = w)
    /\ \A l \in PathLocks : ~TakenUnder(l, l)
    /\ \A waiting \in SUBSET Threads :
           waiting # {} => \E w \in waiting : BlockedBy(w) \cap waiting = {}

\* C26 witness: one worker sleeps in acquire() holding api_lock and the
\* limiter lock while the other holds the circuit-breaker lock to report.
C26_Witness ==
    /\ rqPc["w1"] = "sleep"
    /\ HeldBy("w1") = {"api_lock", "rate_limiter.lock"}
    /\ rqPc["w2"] = "record"
    /\ HeldBy("w2") = {"circuit_breaker.lock"}
    /\ rqOrder = {<<"api_lock", "rate_limiter.lock">>}

\* The report the outcome of a request calls for.
Due(outcome) ==
    IF outcome = [kind |-> "response", status_code |-> 200]
    THEN "record_success"
    ELSE "record_failure"

\* C29: in every safe_api_request call the external request comes after
\* is_available() returning true, a completed acquire(1) and one increment of
\* the usage counter by 1, in this order and nothing else; after it comes one
\* report to the circuit breaker and nothing more, record_success() for
\* status 200 and record_failure() for any other status or an error; a call
\* that has ended after a request has made that report.
C29_RequestProtocol ==
    \A w \in Threads :
        LET trace == rqTrace[w]
        IN  (rqPath[w] = "safe_api_request" /\ "request" \in Did(trace)) =>
                /\ Len(trace) \in {4, 5}
                /\ trace[1] = <<"is_available", TRUE>>
                /\ trace[2] = <<"acquire", 1>>
                /\ trace[3] = <<"increment_usage", 1>>
                /\ trace[4] = <<"request", rqOutcome[w][1]>>
                /\ Len(trace) = 5 => trace[5][1] = Due(rqOutcome[w][1])
                /\ Len(trace) = 4 <=> rqPc[w] \in {"report", "record"}
                /\ Len(trace) = 5 <=> rqPc[w] = "idle"
                /\ rqApiCalls >= 1
                /\ rqIssued <= rqApiCalls

\* C29 witness: a request answered 429 has been reported as a failure and
\* the call has returned, while the other worker's request, answered 200, is
\* about to be reported.
C29_Witness ==
    /\ rqPath["w1"] = "safe_api_request"
    /\ rqPc["w1"] = "idle"
    /\ Len(rqTrace["w1"]) = 5
    /\ rqOutcome["w1"] = Some([kind |-> "response", status_code |-> 429])
    /\ rqTrace["w1"][5][1] = "record_failure"
    /\ rqPc["w2"] = "report"
    /\ rqOutcome["w2"] = Some([kind |-> "response", status_code |-> 200])

\* C30: during a run the usage of the key in use never passes its monthly
\* limit.
C30_WithinMonthlyLimit ==
    ApiKeySelected =>
        trState.api_keys[API_KEY_LABEL].total_calls_used
            <= trState.api_keys[API_KEY_LABEL].monthly_limit


----------------------------------------------------------------------------
(* C34, C35: the circuit breaker's admissions and its reachable states *)

\* C34 (as the claim states it): while the circuit is HALF_OPEN, is_available()
\* has admitted at most half_open_max_calls calls since the circuit became
\* HALF_OPEN.
C34_HalfOpenAdmitsLimited ==
    cb.state = "HALF_OPEN" => cbAdmitted <= cb.half_open_max_calls

\* C35: in every reachable state, CLOSED implies failure_count <
\* failure_threshold, HALF_OPEN implies success_count < half_open_max_calls,
\* and OPEN or HALF_OPEN implies that a last-failure time has been recorded.
C35_BreakerStates ==
    /\ cb.state \in {"CLOSED", "OPEN", "HALF_OPEN"}
    /\ cb.state = "CLOSED" => cb.failure_count < cb.failure_threshold
    /\ cb.state = "HALF_OPEN" => cb.success_count < cb.half_open_max_calls
    /\ cb.state \in {"OPEN", "HALF_OPEN"} => cb.last_failure_time # None

\* The circuit is HALF_OPEN one success short of closing, with a failure_count
\* that failures recorded while it was OPEN raised above the threshold.
C35_Witness ==
    /\ cb.state = "HALF_OPEN"
    /\ cb.half_open_max_calls = 2
    /\ cb.success_count = 1
    /\ cbOp = "record_success"
    /\ cbStreak = 0
    /\ cb.failure_count > cb.failure_threshold

----------------------------------------------------------------------------
(* C40: the rate-limit fallback trigger *)

\* C40: once rate_limit_errors has reached 2 it stays there whatever call is
\* recorded, and every should_trigger_fallback() made from then on returns
\* (True, "rate_limit_errors").
C40_FallbackLatches ==
    /\ [](hmOp = "should_trigger_fallback"
            /\ hm.rate_limit_errors >= RateLimitErrorsThreshold
          => hmRet = Some([trigger |-> TRUE, reason |-> Some("rate_limit_errors")]))
    /\ [][hm.rate_limit_errors >= RateLimitErrorsThreshold
            => hm'.rate_limit_errors >= RateLimitErrorsThreshold]_vars

\* The trigger is asked after two rate-limit answers and then a successful
\* call with jobs found were recorded.
C40_Witness ==
    /\ hmOp = "should_trigger_fallback"
    /\ hm.rate_limit_errors = RateLimitErrorsThreshold
    /\ hm.total_calls > RateLimitErrorsThreshold
    /\ hm.consecutive_failures = 0
    /\ hm.companies_with_jobs > 0
    /\ hmRet[1].trigger

----------------------------------------------------------------------------
(* C38: daily_usage and total_calls_used *)

\* The sum of the counts of a daily_usage dict.
RECURSIVE DailyTotal(_)
DailyTotal(daily) ==
    IF DOMAIN daily = {}
    THEN 0
    ELSE LET d == CHOOSE x \in DOMAIN daily : TRUE
         IN  daily[d] + DailyTotal([x \in DOMAIN daily \ {d} |-> daily[x]])

\* C38: in every tracker state reached from a fresh one by increments, loads
\* and monthly resets, and in every state file written on the way, the counts
\* of each key's daily_usage add up to its total_calls_used.
C38_DailySumsToTotal ==
    /\ \A l \in DOMAIN trState.api_keys :
           DailyTotal(trState.api_keys[l].daily_usage)
               = trState.api_keys[l].total_calls_used
    /\ trFile # None =>
           \A l \in DOMAIN trFile[1].api_keys :
               DailyTotal(trFile[1].api_keys[l].daily_usage)
                   = trFile[1].api_keys[l].total_calls_used

\* A key that was reset in month 2 and has since been used on two days, in a
\* tracker that was loaded from the file.
C38_Witness ==
    /\ trAlive
    /\ trOp = "increment_usage"
    /\ trLoaded.this[1] = 2
    /\ \E l \in DOMAIN trState.api_keys :
           LET r == trState.api_keys[l]
           IN  /\ r.current_month = <<2>>
               /\ r.last_reset = <<2, 1>>
               /\ r.total_calls_used >= 2
               /\ DOMAIN r.daily_usage = {<<2, 1>>, <<2, 2>>}

----------------------------------------------------------------------------
(* C37: the limiter's lock while a thread waits for tokens *)

\* Thread u's acquire() has found too few tokens and has not returned yet.
Waiting(u) == tbNapped[u]

\* C37: a thread whose acquire() waits for tokens holds the lock all the
\* while; as long as it waits no other thread enters the lock, no other
\* thread's acquire() is granted and no get_status() completes, so the next
\* acquire() to return is the waiting one.
C37_OneAtATime ==
    /\ [](\A u \in Threads :
            Waiting(u) => /\ tbLock = u
                          /\ tbPc[u] \in {"sleep", "refill", "deduct"}
                          /\ \A t \in Threads \ {u} : tbPc[t] \in {"idle", "lock"})
    /\ [][\A u \in Threads :
              Waiting(u) =>
                  /\ \A t \in Threads \ {u} :
                         ~AcquireLock(t) /\ ~AcquireDeduct(t) /\ ~GetStatus(t)
                  /\ tbLast' # tbLast => ~Waiting(u)']_vars

\* One thread sleeps for a second token while the other has called
\* acquire(1), which the bucket's tokens would cover, and stands at the lock.
C37_Witness ==
    \E u, t \in Threads :
        /\ u # t
        /\ tbPc[u] = "sleep"
        /\ tbNeed[u] = 2
        /\ tbPc[t] = "lock"
        /\ tbNeed[t] = 1
        /\ Enough(tb, tbNeed[t])

----------------------------------------------------------------------------
(* C31, C32: how fast the limiter grants *)

\* The acquire() calls granted within the last k seconds, and the tokens they
\* took: the grants of a time window of length k that ends now.
RECURSIVE GrantsWithin(_)
GrantsWithin(k) ==
    IF k = 0 THEN tbRecent[0].grants ELSE tbRecent[k].grants + GrantsWithin(k - 1)

RECURSIVE TokensWithin(_)
TokensWithin(k) ==
    IF k = 0 THEN tbRecent[0].tokens ELSE tbRecent[k].tokens + TokensWithin(k - 1)

\* C31 (as the claim states it): two acquire() calls are never granted closer
\* together than the interval the limiter enforces, 1 / refill_rate seconds,
\* from the first call on: a window shorter than that holds at most one grant.
C31_GrantsSpaced ==
    \A k \in 0..MaxWindow :
        k * tb.refill_rate < Grain => GrantsWithin(k) <= 1

\* C32: the tokens granted within any time window of length k are at most
\* capacity + k * refill_rate.
C32_BurstsBounded ==
    \A k \in 0..MaxWindow :
        TokensWithin(k) * Grain <= tb.capacity * Grain + k * tb.refill_rate

\* A window of two seconds in which a full bucket and the refill of the two
\* seconds were granted to three calls, the last of which had to wait.
C32_Witness ==
    /\ tb.capacity = 2
    /\ tb.refill_rate = 1
    /\ tbRecent[MaxWindow].grants = 2
    /\ tbRecent[0].grants = 1
    /\ TokensWithin(MaxWindow) * Grain = tb.capacity * Grain + 2 * tb.refill_rate
    /\ tbLast # None
    /\ tbLast[1].napped

----------------------------------------------------------------------------
(* C39: several audit loggers in one process *)

\* C39 (as the claim states it): every event logged through an audit-logger
\* object is appended to the log file that object was constructed with,
\* however many audit loggers the process has constructed.
C39_OwnLogFile ==
    [][alCalls' # alCalls =>
         LET self == alOp'[1].self
         IN  /\ Len(alFiles'[self]) = Len(alFiles[self]) + 1
             /\ Extends(alFiles'[self], alFiles[self])]_vars

----------------------------------------------------------------------------
(* C33: the connector's fetches and the limiter's tokens *)

\* How many of the first k things a call has done have the given name.
Count(trace, name, k) ==
    Cardinality({ j \in 1..k : trace[j][1] = name })

\* C33 (as the claim states it): in enrich(), every invocation of
\* _fetch_contacts, the retries of the backoff included, comes after a token
\* acquisition of its own: at no point of a call has it fetched more often
\* than it has acquired a token.
C33_EveryFetchHasToken ==
    \A w \in Threads :
        \A k \in 1..Len(rqTrace[w]) :
            Count(rqTrace[w], "_fetch_contacts", k) <= Count(rqTrace[w], "acquire", k)


\* The circuit is OPEN and more than its timeout has passed since the last
\* failure: the next is_available() would move it to HALF_OPEN and admit the
\* call.
ProbingAllowed ==
    /\ cb.state = "OPEN"
    /\ cb.last_failure_time # None
    /\ now - cb.last_failure_time[1] > cb.timeout

\* C36: a refusal of safe_api_request, by the OPEN circuit or by the per-run
\* call cap, sets the run-wide stop flag; the flag once set stays set and no
\* external request is issued after it, whatever the breaker would allow
\* later; and from then on the job loop comes to its export, where it
\* reports the results it has collected so far.
C36_StopIsFinal ==
    /\ [](\A w \in Threads :
            rqRet[w] \in {Some("refused: circuit open"), Some("refused: run limit")}
                => rqLimitReached)
    /\ [][rqLimitReached => rqLimitReached' /\ rqIssued' = rqIssued]_vars
    /\ [](jlPc = "done" => jlReported = Some(jlResults))
    /\ (rqLimitReached ~> jlPc = "done")

\* C36 witness: the run was stopped by the open circuit with companies left,
\* it has reported what it had collected, and the breaker's timeout has since
\* passed.
C36_Witness ==
    /\ jlPc = "done"
    /\ rqLimitReached
    /\ rqRet[JobWorker] = Some("refused: circuit open")
    /\ ProbingAllowed
    /\ jlCompany < MaxCompanies
    /\ jlReported = Some(jlResults)

====
